------------------------- MODULE HpsFetchersProofs -------------------------
(***************************************************************************)
(* The fetchers of HpsFetchers, for every set of layers computed in any    *)
(* order: their registers keep their widths, and what they read are the    *)
(* windows of the layer.                                                   *)
(*                                                                         *)
(* `FetchInv` says of each register of the fetcher in use, while it runs,  *)
(* which row, pixel and word of the input it stands for, as a function of  *)
(* the pass and the count within it; of the data under way, which pass and *)
(* count they are of; and that none are under way two cycles after a stop. *)
(* Of the registers of the fetcher that is not in use it only has the      *)
(* types: a start sets everything that matters.  Addresses are sums modulo *)
(* the size of the RAMs, where and how often they wrap around does not     *)
(* matter.  The sums themselves never overflow, as the registers can hold  *)
(* how far apart the rows of a layer are (`FitsRegisters`).                *)
(***************************************************************************)
EXTENDS HpsFetchers, SequenceTheorems, TLAPS

-----------------------------------------------------------------------------
(* Numbers.                                                                *)

\* Quotient and remainder.
LEMMA Division ==
  ASSUME NEW m \in Nat, NEW n \in Nat \ {0}
  PROVE  /\ m \div n \in Nat /\ m % n \in 0 .. n - 1
         /\ m = n * (m \div n) + (m % n)
  BY Z3

\* A quotient and remainder are the only ones.
LEMMA Quotient ==
  ASSUME NEW n \in Nat \ {0}, NEW q \in Nat, NEW r \in 0 .. n - 1
  PROVE  (n * q + r) \div n = q /\ (n * q + r) % n = r
<1> DEFINE m == n * q + r
           p == m \div n
           s == m % n
<1>1. m \in Nat
  BY SMT
<1>2. p \in Nat /\ s \in 0 .. n - 1 /\ m = n * p + s
  BY <1>1, Division
<1> HIDE DEF p, s
<1>3. p = q
  <2>1. ~(p < q)
    <3>1. SUFFICES ASSUME p < q PROVE FALSE
      OBVIOUS
    <3>2. n * p + n <= n * q
      BY <1>2, <3>1, SMT
    <3> QED
      BY <1>2, <3>2, SMT
  <2>2. ~(q < p)
    <3>1. SUFFICES ASSUME q < p PROVE FALSE
      OBVIOUS
    <3>2. n * q + n <= n * p
      BY <1>2, <3>1, SMT
    <3> QED
      BY <1>2, <3>2, SMT
  <2> QED
    BY <1>2, <2>1, <2>2, SMT
<1> QED
  BY <1>2, <1>3, SMT DEF p, s

\* The quotient and remainder of the next number.
LEMMA NextQuotient ==
  ASSUME NEW m \in Nat, NEW n \in Nat \ {0}
  PROVE  /\ m % n # n - 1 => (m + 1) \div n = m \div n /\ (m + 1) % n = (m % n) + 1
         /\ m % n = n - 1 => (m + 1) \div n = (m \div n) + 1 /\ (m + 1) % n = 0
<1> DEFINE q == m \div n
           r == m % n
<1>1. q \in Nat /\ r \in 0 .. n - 1 /\ m = n * q + r
  BY Division
<1> HIDE DEF q, r
<1>2. CASE r # n - 1
  <2>1. r + 1 \in 0 .. n - 1 /\ m + 1 = n * q + (r + 1)
    BY <1>1, <1>2, SMT
  <2>2. (m + 1) \div n = q /\ (m + 1) % n = r + 1
    BY <1>1, <2>1, Quotient
  <2> QED
    BY <1>2, <2>2 DEF q, r
<1>3. CASE r = n - 1
  <2>1. q + 1 \in Nat /\ 0 \in 0 .. n - 1 /\ m + 1 = n * (q + 1) + 0
    BY <1>1, <1>3, SMT
  <2>2. (n * (q + 1) + 0) \div n = q + 1 /\ (n * (q + 1) + 0) % n = 0
    BY <2>1, Quotient
  <2>3. (m + 1) \div n = q + 1 /\ (m + 1) % n = 0
    BY <2>1, <2>2
  <2> QED
    BY <1>1, <1>3, <2>3, SMT DEF q, r
<1> QED
  BY <1>2, <1>3

\* A small number is its own remainder.
LEMMA Remainder ==
  ASSUME NEW n \in Nat \ {0}, NEW r \in 0 .. n - 1
  PROVE  r \div n = 0 /\ r % n = r
<1>1. 0 \in Nat /\ n * 0 + r = r
  BY SMT
<1>2. (n * 0 + r) \div n = 0 /\ (n * 0 + r) % n = r
  BY <1>1, Quotient
<1> QED
  BY <1>1, <1>2

\* A register keeps what its bits hold.
LEMMA Widths ==
  ASSUME NEW a \in Nat
  PROVE  /\ a % 2^18 \in 0 .. 2^18 - 1 /\ a % 2^14 \in 0 .. 2^14 - 1 /\ a % 2^9 \in 0 .. 2^9 - 1
         /\ a % 2^8 \in 0 .. 2^8 - 1 /\ a % 2^7 \in 0 .. 2^7 - 1 /\ a % 2^4 \in 0 .. 2^4 - 1
         /\ a % 2^3 \in 0 .. 2^3 - 1 /\ a % 4 \in 0 .. 3 /\ a % 2 \in 0 .. 1
  BY SMT

\* Sums of addresses wrap around once, however often.
LEMMA Wraps ==
  ASSUME NEW a \in Nat, NEW b \in Nat
  PROVE  /\ ((a % 2^18) + b) % 2^18 = (a + b) % 2^18
         /\ ((a % 2^14) + b) % 2^14 = (a + b) % 2^14
  BY SMT

-----------------------------------------------------------------------------
(* Types.                                                                  *)

Bytes == {a \in Nat : a < 2^18}
Blocks == {a \in Nat : a < 2^14}

Configs ==
  [mode : {0, 1}, base_addr : Bytes, num_pixels_x : Nat, pixel_advance_x : Nat,
   pixel_advance_y : Nat, input_channel_depth : Nat, output_channel_depth : Nat]

\* The registers hold what the driver wrote for the layer.
ConfigOK ==
  /\ config \in Configs
  /\ layer \in Layers \cup {None}
  /\ layer # None => config = Registers(layer)

Types0 ==
  /\ pixel_ag0 \in [addr : Bytes, pixel_x : 0 .. 79, row_begin : Bytes, next_count : 0 .. 7]
  /\ value_ag \in [running : BOOLEAN, count : 0 .. 3, next_row : Bytes]
  /\ reader.byte_sel \in 0 .. 1
  /\ at0.pass \in Nat

Types1 ==
  /\ control \in [running : BOOLEAN, cycle_counter : 0 .. 2^9 - 1]
  /\ pixel_ag1 \in [addr : Blocks, pixel_x : 0 .. 2^9 - 1, row_begin : Blocks]
  /\ repeater \in [group : Ports, repeat_count : 0 .. 2^7 - 1, mem : [Ports -> Blocks]]
  /\ value_ags \in [Ports -> [addr : Blocks, x_count : 0 .. 2^7 - 1, next_row : Blocks]]
  /\ at1.pass \in Nat

Together ==
  /\ value_ag.running = control.running
  /\ ram \in [addr : [Ports -> Blocks], phase : Ports]
  /\ idle \in Nat

TInv == ConfigOK /\ Types0 /\ Types1 /\ Together

\* What the driver writes fits the registers.
LEMMA RegistersType ==
  ASSUME config \in Configs, NEW l \in Layers
  PROVE  Registers(l) \in Configs
<1>1. l.mode \in {0, 1} /\ l.base \in Bytes
  BY LayersAssumption, SMT DEF Bytes
<1>2. CASE l.mode = 0
  BY <1>1, <1>2 DEF Registers, Configs
<1>3. CASE l.mode = 1
  <2>1. l.depth \in Nat /\ l.width \in Nat /\ l.width - 3 \in Nat /\ l.channels \in Nat
    BY <1>3, LayersAssumption, SMT
  <2>2. l.depth * l.width \in Nat /\ 16 * l.depth \in Nat
    BY <2>1, SMT
  <2>3. (l.width - 3) % 2^9 \in Nat /\ l.depth % 2^4 \in Nat /\ (l.depth * l.width) % 2^8 \in Nat
    BY <2>1, <2>2, Widths, SMT
  <2> QED
    BY <1>1, <1>3, <2>1, <2>2, <2>3 DEF Registers, Configs
<1> QED
  BY <1>1, <1>2, <1>3

\* Every step is a clock cycle of the two fetchers, started only if they are not
\* running, with other registers only if they are not.
LEMMA Steps ==
  ASSUME Next
  PROVE  \E start, reset \in BOOLEAN :
           /\ Clocked(start, reset)
           /\ start => ~control.running /\ ~reset /\ idle >= 2 /\ layer # None
           /\ reset => control.running
           /\ UNCHANGED <<layer, config>>
                \/ /\ ~control.running /\ ~start /\ idle >= 2
                   /\ \E l \in Layers : layer' = l /\ config' = Registers(l)
           /\ reset => idle' = 0
           /\ ~reset => idle' = idle \/ (idle' = idle + 1 /\ ~control.running)
<1> TRUE \in BOOLEAN /\ FALSE \in BOOLEAN
  OBVIOUS
<1>1. CASE Run
  BY <1>1, Zenon DEF Run
<1>2. CASE Stop
  BY <1>2, Zenon DEF Stop, running
<1>3. CASE Idle
  BY <1>3, Zenon DEF Idle, running
<1>4. CASE Configure
  <2>1. idle >= 2
    BY <1>4, BoundsAssumption, SMT DEF Configure
  <2> QED
    BY <1>4, <2>1, Zenon DEF Configure, running
<1>5. CASE Start
  BY <1>5, Zenon DEF Start, running
<1> QED
  BY <1>1, <1>2, <1>3, <1>4, <1>5 DEF Next

\* The registers change only by being written.
LEMMA ConfigStep ==
  ASSUME ConfigOK, Next
  PROVE  ConfigOK'
<1>1. CASE UNCHANGED <<layer, config>>
  BY <1>1 DEF ConfigOK, Registers
<1>2. ASSUME NEW l \in Layers, layer' = l, config' = Registers(l)
      PROVE  ConfigOK'
  <2>1. config' \in Configs
    BY <1>2, RegistersType DEF ConfigOK
  <2>2. Registers(l)' = Registers(l)
    <3>1. l.mode \in {0, 1} 
      BY LayersAssumption
    <3>2. CASE l.mode = 0
      BY <1>2, <3>2, <2>1 DEF Registers, ConfigOK, Configs
    <3>3. CASE l.mode = 1
      BY <3>3 DEF Registers
    <3> QED
      BY <3>1, <3>2, <3>3
  <2> QED
    BY <1>2, <2>1, <2>2 DEF ConfigOK
<1> QED
  BY Steps, <1>1, <1>2

-----------------------------------------------------------------------------
(* Types of a cycle.                                                       *)

\* Addresses are numbers, and wrapped ones are addresses.
LEMMA Addresses ==
  /\ \A a \in Bytes : a \in Nat
  /\ \A a \in Blocks : a \in Nat
  /\ \A a \in Nat : F0!Address(a) \in Bytes /\ F1!Address(a) \in Blocks
  /\ 0 \in Bytes /\ 0 \in Blocks
<1>1. (\A a \in Bytes : a \in Nat) /\ (\A a \in Blocks : a \in Nat)
  BY SMT DEF Bytes, Blocks
<1>3. 0 \in Bytes /\ 0 \in Blocks
  BY SMT DEF Bytes, Blocks
<1>2. ASSUME NEW a \in Nat PROVE F0!Address(a) \in Bytes /\ F1!Address(a) \in Blocks
  BY Widths, SMT DEF F0!Address, F1!Address, Bytes, Blocks
<1> QED
  BY <1>1, <1>2, <1>3

\* A cycle keeps the widths of the registers, in mode 0's fetcher.
LEMMA Types0Step ==
  ASSUME ConfigOK, Types0, NEW start \in BOOLEAN, NEW reset \in BOOLEAN, F0!Clocked(start, reset)
  PROVE  Types0'
<1>1. config.base_addr \in Bytes /\ config.base_addr \in Nat
  BY Addresses DEF ConfigOK, Configs
<1>2. F0!addr_out \in Bytes
  BY DEF F0!addr_out, Types0
<1>3. pixel_ag0' \in [addr : Bytes, pixel_x : 0 .. 79, row_begin : Bytes, next_count : 0 .. 7]
  <2>1. /\ pixel_ag0.addr \in Bytes /\ pixel_ag0.row_begin \in Bytes
        /\ pixel_ag0.pixel_x \in 0 .. 79 /\ pixel_ag0.next_count \in 0 .. 7
    BY DEF Types0
  <2>2. /\ F0!Address(config.base_addr + 2 * F0!INPUT_WIDTH) \in Bytes
        /\ F0!Address(pixel_ag0.row_begin + 2 * F0!INPUT_WIDTH) \in Bytes
        /\ F0!Address(pixel_ag0.addr + 4) \in Bytes
    <3>1. /\ config.base_addr + 2 * F0!INPUT_WIDTH \in Nat
          /\ pixel_ag0.row_begin + 2 * F0!INPUT_WIDTH \in Nat
          /\ pixel_ag0.addr + 4 \in Nat
      <4>1. pixel_ag0.addr \in Nat /\ pixel_ag0.row_begin \in Nat
        BY <2>1, Addresses
      <4> QED
        BY <1>1, <4>1, SMT DEF F0!INPUT_WIDTH
    <3> QED
      BY <3>1, Addresses
  <2>3. F0!NextPixel(start)
    BY DEF F0!Clocked
  <2>4. CASE start
    <3>1. pixel_ag0' = [addr |-> config.base_addr, pixel_x |-> 0, next_count |-> 0,
                        row_begin |-> F0!Address(config.base_addr + 2 * F0!INPUT_WIDTH)]
      BY <2>3, <2>4, Zenon DEF F0!NextPixel
    <3> QED
      BY <3>1, <2>2, <1>1
  <2>5. CASE ~start /\ ~F0!last
    BY <2>3, <2>5, Zenon DEF F0!NextPixel, Types0
  <2>6. CASE ~start /\ F0!last /\ pixel_ag0.next_count < F0!Repeats - 1
    <3>1. pixel_ag0' = [pixel_ag0 EXCEPT !.next_count = @ + 1]
      BY <2>3, <2>6, Zenon DEF F0!NextPixel
    <3>2. pixel_ag0.next_count + 1 \in 0 .. 7
      BY <2>1, <2>6, SMT DEF F0!Repeats
    <3> QED
      BY <3>1, <3>2 DEF Types0
  <2>7. CASE ~start /\ F0!last /\ ~(pixel_ag0.next_count < F0!Repeats - 1) /\ F0!last_x
    <3>1. pixel_ag0' = [addr |-> pixel_ag0.row_begin, pixel_x |-> 0, next_count |-> 0,
                        row_begin |-> F0!Address(pixel_ag0.row_begin + 2 * F0!INPUT_WIDTH)]
      BY <2>3, <2>7, Zenon DEF F0!NextPixel
    <3> QED
      BY <3>1, <2>1, <2>2
  <2>8. CASE ~start /\ F0!last /\ ~(pixel_ag0.next_count < F0!Repeats - 1) /\ ~F0!last_x
    <3>1. pixel_ag0' = [pixel_ag0 EXCEPT !.addr = F0!Address(@ + 4), !.pixel_x = @ + 1, !.next_count = 0]
      BY <2>3, <2>8, Zenon DEF F0!NextPixel
    <3>2. pixel_ag0.pixel_x + 1 \in 0 .. 79
      BY <2>1, <2>8, SMT DEF F0!last_x, F0!NUM_ADDRESSES_X
    <3>3. pixel_ag0' = [addr |-> F0!Address(pixel_ag0.addr + 4), pixel_x |-> pixel_ag0.pixel_x + 1,
                        row_begin |-> pixel_ag0.row_begin, next_count |-> 0]
      BY <3>1, Zenon DEF Types0
    <3> QED
      BY <3>2, <3>3, <2>1, <2>2
  <2> QED
    BY <2>4, <2>5, <2>6, <2>7, <2>8, Zenon
<1>4. value_ag' \in [running : BOOLEAN, count : 0 .. 3, next_row : Bytes]
  <2>1. value_ag.running \in BOOLEAN /\ value_ag.count \in 0 .. 3 /\ value_ag.count + 1 \in Nat
    BY SMT DEF Types0
  <2>2. (value_ag.count + 1) % 4 \in 0 .. 3
    BY <2>1, Widths
  <2>3. F0!Address(F0!addr_out + F0!INPUT_WIDTH) \in Bytes
    <3>1. F0!addr_out + F0!INPUT_WIDTH \in Nat
      BY <1>2, Addresses, SMT DEF F0!INPUT_WIDTH
    <3> QED
      BY <3>1, Addresses
  <2> QED
    BY <2>1, <2>2, <2>3 DEF F0!Clocked, F0!NextValue
<1>5. reader'.byte_sel \in 0 .. 1
  <2>1. (F0!addr_out \div 2) \in Nat
    BY <1>2, Addresses, SMT
  <2> QED
    BY <2>1, Widths DEF F0!Clocked, F0!ReadValues
<1>6. at0'.pass \in Nat
  BY SMT DEF F0!Clocked, Types0
<1> QED
  BY <1>3, <1>4, <1>5, <1>6 DEF Types0

\* A record changed in its second field and then in its first.
LEMMA SecondThenFirst ==
  ASSUME NEW S, NEW T, NEW R, NEW v \in [addr : S, x_count : T, next_row : R], NEW x, NEW a
  PROVE  [v EXCEPT !.x_count = x, !.addr = a] = [addr |-> a, x_count |-> x, next_row |-> v.next_row]
<1>1. [v EXCEPT !.x_count = x, !.addr = a] = [[v EXCEPT !.x_count = x] EXCEPT !.addr = a]
  OBVIOUS
<1>2. [v EXCEPT !.x_count = x] = [addr |-> v.addr, x_count |-> x, next_row |-> v.next_row]
  OBVIOUS
<1>3. [[addr |-> v.addr, x_count |-> x, next_row |-> v.next_row] EXCEPT !.addr = a]
        = [addr |-> a, x_count |-> x, next_row |-> v.next_row]
  OBVIOUS
<1> QED
  BY <1>1, <1>2, <1>3

\* A cycle keeps the widths of the registers, in mode 1's fetcher.
LEMMA Types1Step ==
  ASSUME ConfigOK, Types1, NEW start \in BOOLEAN, NEW reset \in BOOLEAN, F1!Clocked(start, reset)
  PROVE  Types1'
<1> DEFINE PixelAg == [addr : Blocks, pixel_x : 0 .. 2^9 - 1, row_begin : Blocks]
           ValueAg == [addr : Blocks, x_count : 0 .. 2^7 - 1, next_row : Blocks]
<1>1. /\ config.pixel_advance_x \in Nat /\ config.pixel_advance_y \in Nat
      /\ config.base_addr \in Nat /\ config.base_addr < 2^18
  BY DEF ConfigOK, Configs, Bytes
<1>2. F1!base_addr \in Blocks /\ F1!base_addr \in Nat
  BY <1>1, SMT DEF F1!base_addr, Blocks
<1>3. /\ pixel_ag1.addr \in Blocks /\ pixel_ag1.row_begin \in Blocks /\ pixel_ag1.pixel_x \in Nat
      /\ pixel_ag1.addr \in Nat /\ pixel_ag1.row_begin \in Nat
      /\ repeater.group \in Ports /\ repeater.repeat_count \in 0 .. 2^7 - 1
      /\ \A i \in Ports : repeater.mem[i] \in Blocks
  <2>1. /\ pixel_ag1.addr \in Blocks /\ pixel_ag1.row_begin \in Blocks /\ pixel_ag1.pixel_x \in 0 .. 2^9 - 1
        /\ repeater.group \in Ports /\ repeater.repeat_count \in 0 .. 2^7 - 1
        /\ \A i \in Ports : repeater.mem[i] \in Blocks
    BY DEF Types1
  <2>2. pixel_ag1.pixel_x \in Nat
    BY <2>1, SMT
  <2> QED
    BY <2>1, <2>2, Addresses
<1>4. F1!repeater_addr \in Blocks /\ F1!repeater_addr \in Nat
  BY <1>3, Addresses, Zenon DEF F1!repeater_addr
<1>5. pixel_ag1' \in PixelAg
  <2>1. /\ F1!Address(F1!base_addr + config.pixel_advance_y) \in Blocks
        /\ F1!Address(pixel_ag1.row_begin + config.pixel_advance_y) \in Blocks
        /\ F1!Address(pixel_ag1.addr + config.pixel_advance_x) \in Blocks
    BY <1>1, <1>2, <1>3, Addresses
  <2>2. F1!NextPixel(start)
    BY DEF F1!Clocked
  <2>3. 0 \in 0 .. 2^9 - 1 /\ (pixel_ag1.pixel_x + 1) % 2^9 \in 0 .. 2^9 - 1
    BY <1>3, Widths, SMT
  <2>4. CASE start
    <3>1. pixel_ag1' = [addr |-> F1!base_addr, pixel_x |-> 0,
                        row_begin |-> F1!Address(F1!base_addr + config.pixel_advance_y)]
      BY <2>2, <2>4, Zenon DEF F1!NextPixel
    <3> QED
      BY <3>1, <2>1, <2>3, <1>2
  <2>5. CASE ~start /\ ~F1!gen_next
    BY <2>2, <2>5, Zenon DEF F1!NextPixel, Types1
  <2>6. CASE ~start /\ F1!gen_next /\ pixel_ag1.pixel_x + 1 = config.num_pixels_x
    <3>1. pixel_ag1' = [addr |-> pixel_ag1.row_begin, pixel_x |-> 0,
                        row_begin |-> F1!Address(pixel_ag1.row_begin + config.pixel_advance_y)]
      BY <2>2, <2>6, Zenon DEF F1!NextPixel
    <3> QED
      BY <3>1, <2>1, <2>3, <1>3
  <2>7. CASE ~start /\ F1!gen_next /\ ~(pixel_ag1.pixel_x + 1 = config.num_pixels_x)
    <3>1. pixel_ag1' = [pixel_ag1 EXCEPT !.addr = F1!Address(@ + config.pixel_advance_x),
                                         !.pixel_x = (@ + 1) % 2^9]
      BY <2>2, <2>7, Zenon DEF F1!NextPixel
    <3>2. pixel_ag1' = [addr |-> F1!Address(pixel_ag1.addr + config.pixel_advance_x),
                        pixel_x |-> (pixel_ag1.pixel_x + 1) % 2^9, row_begin |-> pixel_ag1.row_begin]
      BY <3>1, Zenon DEF Types1
    <3> QED
      BY <3>2, <2>1, <2>3, <1>3
  <2> QED
    BY <2>4, <2>5, <2>6, <2>7, Zenon
<1>6. repeater' \in [group : Ports, repeat_count : 0 .. 2^7 - 1, mem : [Ports -> Blocks]]
  <2> DEFINE group == IF start THEN 0 ELSE IF F1!next_pixel THEN (repeater.group + 1) % 4 ELSE repeater.group
             count == IF start THEN 0
                      ELSE IF F1!next_pixel /\ F1!group_ends THEN F1!next_repeat
                      ELSE repeater.repeat_count
             mem == IF F1!gen_next THEN [repeater.mem EXCEPT ![repeater.group] = pixel_ag1.addr]
                    ELSE repeater.mem
  <2>1. repeater' = [group |-> group, repeat_count |-> count, mem |-> mem]
    BY DEF F1!Clocked, F1!Repeat
  <2>2. (repeater.group + 1) % 4 \in Ports /\ 0 \in Ports
    <3>1. repeater.group + 1 \in Nat
      BY <1>3, SMT DEF Ports
    <3> QED
      BY <3>1, Widths, SMT DEF Ports
  <2>3. group \in Ports
    BY <1>3, <2>2
  <2>4. F1!next_repeat \in 0 .. 2^7 - 1 /\ 0 \in 0 .. 2^7 - 1
    <3>1. repeater.repeat_count + 1 \in Nat
      BY <1>3, SMT
    <3>2. (repeater.repeat_count + 1) % 2^7 \in 0 .. 2^7 - 1
      BY <3>1, Widths
    <3>3. 0 \in 0 .. 2^7 - 1
      BY SMT
    <3> QED
      BY <3>2, <3>3, Zenon DEF F1!next_repeat
  <2>5. count \in 0 .. 2^7 - 1
    BY <1>3, <2>4, Zenon
  <2>6. mem \in [Ports -> Blocks]
    BY <1>3 DEF Types1
  <2> HIDE DEF group, count, mem
  <2> QED
    BY <2>1, <2>3, <2>5, <2>6
<1>7. value_ags' \in [Ports -> ValueAg]
  <2>1. value_ags' = [i \in Ports |-> F1!NextValue(i)]
    BY DEF F1!Clocked, F1!Streams, F1!Ports, Ports
  <2>2. ASSUME NEW i \in Ports PROVE F1!NextValue(i) \in ValueAg
    <3> DEFINE v == value_ags[i]
    <3>1. v \in ValueAg
      BY DEF Types1
    <3>2. v.addr \in Nat /\ v.next_row \in Nat /\ v.next_row \in Blocks /\ v.addr \in Blocks /\ v.x_count \in Nat
      BY <3>1, Addresses, SMT
    <3>3. /\ F1!Address(F1!repeater_addr + config.pixel_advance_y) \in Blocks
          /\ F1!Address(v.next_row + config.pixel_advance_y) \in Blocks
          /\ F1!Address(v.addr + 1) \in Blocks
      BY <1>1, <1>4, <3>2, Addresses
    <3>4. 0 \in 0 .. 2^7 - 1 /\ 1 \in 0 .. 2^7 - 1 /\ (v.x_count + 1) % 2^7 \in 0 .. 2^7 - 1
      BY <3>2, Widths, SMT
    <3>5. CASE F1!start_gen(i)
      <4>1. F1!NextValue(i) = [addr |-> F1!repeater_addr, x_count |-> 1,
                               next_row |-> F1!Address(F1!repeater_addr + config.pixel_advance_y)]
        BY <3>5, Zenon DEF F1!NextValue
      <4> QED
        BY <4>1, <3>3, <3>4, <1>4
    <3>6. CASE ~F1!start_gen(i) /\ v.x_count = F1!x_size - 1
      <4>1. F1!NextValue(i) = [addr |-> v.next_row, x_count |-> 0,
                               next_row |-> F1!Address(v.next_row + config.pixel_advance_y)]
        BY <3>6, Zenon DEF F1!NextValue
      <4> QED
        BY <4>1, <3>2, <3>3, <3>4
    <3>7. CASE ~F1!start_gen(i) /\ ~(v.x_count = F1!x_size - 1)
      <4> DEFINE a == IF v.x_count % 4 = 3 THEN F1!Address(v.addr + 1) ELSE v.addr
      <4>1. F1!NextValue(i) = [v EXCEPT !.x_count = (@ + 1) % 2^7,
                                  !.addr = IF v.x_count % 4 = 3 THEN F1!Address(@ + 1) ELSE @]
        BY <3>7, Zenon DEF F1!NextValue
      <4>2. F1!NextValue(i) = [addr |-> a, x_count |-> (v.x_count + 1) % 2^7, next_row |-> v.next_row]
        BY <4>1, <3>1, SecondThenFirst, Zenon
      <4>3. a \in Blocks
        BY <3>2, <3>3
      <4> HIDE DEF a
      <4> QED
        BY <4>2, <4>3, <3>2, <3>4
    <3> QED
      BY <3>5, <3>6, <3>7
  <2> QED
    BY <2>1, <2>2
<1>8. control' \in [running : BOOLEAN, cycle_counter : 0 .. 2^9 - 1]
  <2>1. control.running \in BOOLEAN /\ control.cycle_counter \in 0 .. 2^9 - 1 /\ control.cycle_counter + 1 \in Nat
    BY SMT DEF Types1
  <2>2. 0 \in 0 .. 2^9 - 1 /\ (control.cycle_counter + 1) % 2^9 \in 0 .. 2^9 - 1
    BY <2>1, Widths, SMT
  <2> QED
    BY <2>1, <2>2 DEF F1!Clocked
<1>9. at1'.pass \in Nat
  BY SMT DEF F1!Clocked, Types1
<1> QED
  BY <1>5, <1>6, <1>7, <1>8, <1>9 DEF Types1

-----------------------------------------------------------------------------
(* The RAMs: what a port gets.                                             *)

\* Ports and RAMs are paired.
LEMMA Partners ==
  ASSUME NEW phase \in Ports, NEW k \in Ports
  PROVE  Partner(phase, k) \in Ports /\ Partner(phase, Partner(phase, k)) = k
  BY SMT DEF Partner, Ports

\* The addresses of the ports, of either fetcher.
LEMMA Ports0 ==
  ASSUME Types0
  PROVE  F0!ports \in [addr : [Ports -> Blocks], phase : Ports]
<1>1. F0!addr_out \in Nat /\ F0!addr_out < 2^18
  BY SMT DEF F0!addr_out, Types0, Bytes
<1>2. F0!phase \in Ports
  <2>1. F0!addr_out \div 4 \in Nat
    BY <1>1, SMT
  <2> QED
    BY <2>1, Widths DEF F0!phase, Ports
<1>3. F0!block \in Blocks /\ F0!second_block \in Blocks
  <2>1. F0!block \in Nat /\ F0!block < 2^14
    BY <1>1, SMT DEF F0!block
  <2>2. (F0!block + 1) % 2^14 \in Nat /\ (F0!block + 1) % 2^14 < 2^14
    BY <2>1, SMT
  <2> QED
    BY <2>1, <2>2 DEF Blocks, F0!second_block
<1>4. ASSUME NEW p \in Ports PROVE F0!PortAddress(p) \in Blocks
  <2>1. CASE p = 0
    BY <1>3, <2>1 DEF F0!PortAddress
  <2>2. CASE p = 3
    BY <1>3, <2>2 DEF F0!PortAddress
  <2>3. CASE p # 0 /\ p # 3
    BY <2>3, Addresses DEF F0!PortAddress
  <2> QED
    BY <2>1, <2>2, <2>3
<1> QED
  BY <1>2, <1>4 DEF F0!ports, F0!Ports, Ports

\* The same for mode 1's fetcher.
LEMMA Ports1 ==
  ASSUME Types1
  PROVE  F1!ports \in [addr : [Ports -> Blocks], phase : Ports]
<1>1. ASSUME NEW i \in Ports PROVE F1!addr_out(i) \in Blocks
  <2>1. value_ags[i].addr \in Blocks /\ pixel_ag1.addr \in Blocks /\ repeater.mem[repeater.group] \in Blocks
    BY DEF Types1
  <2> QED
    BY <2>1, Zenon DEF F1!addr_out, F1!repeater_addr
<1>2. control.cycle_counter % 4 \in Ports
  <2>1. control.cycle_counter \in Nat
    BY SMT DEF Types1
  <2> QED
    BY <2>1, Widths DEF Ports
<1> QED
  BY <1>1, <1>2 DEF F1!ports, F1!Streams, F1!Ports, Ports

\* A port's address arrives at its RAM.
LEMMA Arrives ==
  ASSUME NEW ports \in [addr : [Ports -> Blocks], phase : Ports], Multiplex(ports)
  PROVE  /\ ram' \in [addr : [Ports -> Blocks], phase : Ports]
         /\ ram'.phase = ports.phase
         /\ \A i \in Ports : ram'.addr[Partner(ports.phase, i)] = ports.addr[i]
<1>1. ram' = [addr |-> [k \in Ports |-> ports.addr[Partner(ports.phase, k)]], phase |-> ports.phase]
  BY DEF Multiplex
<1>2. \A k \in Ports : Partner(ports.phase, k) \in Ports /\ Partner(ports.phase, Partner(ports.phase, k)) = k
  BY Partners
<1> QED
  BY <1>1, <1>2

\* Whichever fetcher's addresses the RamMux takes, they are addresses.
LEMMA RoutedPorts ==
  ASSUME Types0, Types1
  PROVE  routed_ports \in [addr : [Ports -> Blocks], phase : Ports]
  BY Ports0, Ports1, Zenon DEF routed_ports

-----------------------------------------------------------------------------
(* Types, always.                                                          *)

\* After the reset every register is zero.
LEMMA TInitially == Init => TInv
<1> SUFFICES ASSUME Init PROVE TInv
  OBVIOUS
<1> USE Addresses DEF Init
<1>1. ConfigOK
  BY DEF ConfigOK, Configs
<1>2. Types0
  <2>1. 0 \in 0 .. 79 /\ 0 \in 0 .. 7 /\ 0 \in 0 .. 3 /\ 0 \in 0 .. 1 /\ 0 \in Nat
    OBVIOUS
  <2> QED
    BY <2>1 DEF Types0, F0!InitFetcher
<1>3. Types1
  <2>1. 0 \in 0 .. 2^9 - 1 /\ 0 \in 0 .. 2^7 - 1 /\ 0 \in Ports /\ 0 \in Nat
    BY SMT DEF Ports
  <2> QED
    BY <2>1 DEF Types1, F1!InitFetcher, F1!Streams, F1!Ports, Ports
<1>4. Together
  <2>1. 0 \in Ports
    BY DEF Ports
  <2> QED
    BY <2>1 DEF Together, InitMux, F0!InitFetcher, F1!InitFetcher
<1> QED
  BY <1>1, <1>2, <1>3, <1>4 DEF TInv

\* Both fetchers start and stop together.
LEMMA TogetherStep ==
  ASSUME TInv, Next
  PROVE  Together'
<1>1. PICK start \in BOOLEAN, reset \in BOOLEAN :
        /\ Clocked(start, reset)
        /\ idle' \in {0, idle, idle + 1}
  BY Steps, Zenon
<1>2. /\ value_ag'.running = ((value_ag.running \/ start) /\ ~reset)
      /\ control'.running = ((control.running \/ start) /\ ~reset)
  BY <1>1 DEF Clocked, F0!Clocked, F1!Clocked, F0!NextValue
<1>3. Multiplex(routed_ports)
  BY <1>1 DEF Clocked
<1>4. ram' \in [addr : [Ports -> Blocks], phase : Ports]
  BY <1>3, RoutedPorts, Arrives DEF TInv
<1>5. idle' \in Nat
  BY <1>1, SMT DEF TInv, Together
<1> QED
  BY <1>2, <1>4, <1>5 DEF TInv, Together

\* Every step keeps the types.
LEMMA TStep == TInv /\ [Next]_vars => TInv'
<1> SUFFICES ASSUME TInv, [Next]_vars PROVE TInv'
  OBVIOUS
<1>1. CASE Next
  <2>1. PICK start \in BOOLEAN, reset \in BOOLEAN : Clocked(start, reset)
    BY <1>1, Steps, Zenon
  <2>2. ConfigOK'
    BY <1>1, ConfigStep DEF TInv
  <2>3. Types0'
    BY <2>1, Types0Step DEF TInv, Clocked
  <2>4. Types1'
    BY <2>1, Types1Step DEF TInv, Clocked
  <2>5. Together'
    BY <1>1, TogetherStep
  <2> QED
    BY <2>2, <2>3, <2>4, <2>5 DEF TInv
<1>2. CASE UNCHANGED vars
  <2>1. ConfigOK'
    BY <1>2 DEF vars, TInv, ConfigOK, Registers
  <2>2. Types0'
    BY <1>2, Zenon DEF vars, TInv, Types0
  <2>3. Types1'
    BY <1>2, Zenon DEF vars, TInv, Types1
  <2>4. Together'
    BY <1>2, Zenon DEF vars, TInv, Together
  <2> QED
    BY <2>1, <2>2, <2>3, <2>4 DEF TInv
<1> QED
  BY <1>1, <1>2

\* The registers always have their types.
LEMMA AlwaysTInv == Spec => []TInv
  BY TInitially, TStep, PTL DEF Spec

\* An address register that holds an address is in its range.
LEMMA Ranges ==
  /\ \A a \in Bytes : a \in 0 .. 2^18 - 1
  /\ \A a \in Blocks : a \in 0 .. 2^14 - 1
<1>1. ASSUME NEW a \in Bytes PROVE a \in 0 .. 2^18 - 1
  BY SMT DEF Bytes
<1>2. ASSUME NEW a \in Blocks PROVE a \in 0 .. 2^14 - 1
  BY SMT DEF Blocks
<1> QED
  BY <1>1, <1>2

\* The registers of both fetchers hold values of their widths, those of the fetcher
\* that is not used included, and both are running or neither is.
THEOREM AlwaysTypeOK == Spec => []TypeOK
<1>1. ASSUME TInv PROVE TypeOK
  <2>1. F0!TypeOK
    BY <1>1, Ranges DEF TInv, Types0, F0!TypeOK, F0!NUM_ADDRESSES_X, F0!Repeats
  <2>2. F1!TypeOK
    BY <1>1, Ranges DEF TInv, Types1, F1!TypeOK, F1!Streams, F1!Ports, Ports
  <2>3. \A k \in Ports : ram.addr[k] \in 0 .. 2^14 - 1
    BY <1>1, Ranges DEF TInv, Together
  <2> QED
    BY <1>1, <2>1, <2>2, <2>3 DEF TInv, ConfigOK, Together, TypeOK
<1> QED
  BY <1>1, AlwaysTInv, PTL

-----------------------------------------------------------------------------
(* The input layer: where its windows lie, and what its fetcher holds.     *)

\* The first byte of a row of the even window of a pass.
Row0(p, c) ==
  config.base_addr + 644 * ((p \div 8) \div 80) + 4 * ((p \div 8) % 80) + 322 * c

\* What is produced next, while the fetcher is running.
Produces0 ==
  control.running =>
    /\ pixel_ag0.next_count = at0.pass % 8
    /\ pixel_ag0.pixel_x = (at0.pass \div 8) % 80
    /\ pixel_ag0.addr = F0!Address(Row0(at0.pass, 0))
    /\ pixel_ag0.row_begin = F0!Address(config.base_addr + 644 * ((at0.pass \div 8) \div 80 + 1))
    /\ value_ag.count # 0 => value_ag.next_row = F0!Address(Row0(at0.pass, value_ag.count))

\* The RAMs were given the addresses of a window's row and of the word after it.
Even0 ==
  config.mode = 0 /\ at0.even # None =>
    LET a == F0!Address(Row0(at0.even.pass, at0.even.count))
    IN  /\ at0.even.pass \in Nat /\ at0.even.count \in 0 .. 3
        /\ reader.byte_sel = (a \div 2) % 2
        /\ ram.phase = (a \div 4) % 4
        /\ ram.addr[Partner(ram.phase, 0)] = a \div 16
        /\ ram.addr[Partner(ram.phase, 3)] = ((a + 4) % 2^18) \div 16

\* The odd window's row of the cycle before is held back.
Odd0 ==
  layer # None /\ config.mode = 0 /\ at0.odd # None =>
    /\ at0.odd.pass \in Nat /\ at0.odd.count \in 0 .. 3
    /\ reader.odd = [i \in 1 .. 4 |-> F0!Address(Row0(at0.odd.pass, at0.odd.count) + 2 + i - 1)]

\* A while after the stop, no data are under way.
Quiet ==
  ~control.running =>
    /\ idle >= 1 => at0.even = None /\ at1.now = None
    /\ idle >= 2 => at0.odd = None

\* The numbers of a pass.
LEMMA Passes0 ==
  ASSUME NEW p \in Nat
  PROVE  /\ p \div 8 \in Nat /\ p % 8 \in 0 .. 7
         /\ (p \div 8) \div 80 \in Nat /\ (p \div 8) % 80 \in 0 .. 79
         /\ p % 8 # 7 => (p + 1) \div 8 = p \div 8 /\ (p + 1) % 8 = (p % 8) + 1
         /\ p % 8 = 7 => /\ (p + 1) % 8 = 0 /\ (p + 1) \div 8 = p \div 8 + 1
                         /\ (p \div 8) % 80 # 79 =>
                              /\ ((p + 1) \div 8) \div 80 = (p \div 8) \div 80
                              /\ ((p + 1) \div 8) % 80 = ((p \div 8) % 80) + 1
                         /\ (p \div 8) % 80 = 79 =>
                              /\ ((p + 1) \div 8) \div 80 = (p \div 8) \div 80 + 1
                              /\ ((p + 1) \div 8) % 80 = 0
<1>1. p \div 8 \in Nat /\ p % 8 \in 0 .. 7
  BY SMT
<1>2. (p \div 8) \div 80 \in Nat /\ (p \div 8) % 80 \in 0 .. 79
  BY <1>1, SMT
<1>3. /\ p % 8 # 7 => (p + 1) \div 8 = p \div 8 /\ (p + 1) % 8 = (p % 8) + 1
      /\ p % 8 = 7 => (p + 1) % 8 = 0 /\ (p + 1) \div 8 = p \div 8 + 1
  BY SMT
<1>4. ASSUME NEW q \in Nat
      PROVE  /\ q % 80 # 79 => (q + 1) \div 80 = q \div 80 /\ (q + 1) % 80 = (q % 80) + 1
             /\ q % 80 = 79 => (q + 1) \div 80 = q \div 80 + 1 /\ (q + 1) % 80 = 0
  BY SMT
<1> DEFINE q == p \div 8
<1>5. /\ q % 80 # 79 => (q + 1) \div 80 = q \div 80 /\ (q + 1) % 80 = (q % 80) + 1
      /\ q % 80 = 79 => (q + 1) \div 80 = q \div 80 + 1 /\ (q + 1) % 80 = 0
  BY <1>1, <1>4, Zenon
<1> QED
  BY <1>1, <1>2, <1>3, <1>5, Zenon

\* Where a row lies, from where the window begins.
LEMMA Row0Type ==
  ASSUME config.base_addr \in Nat, NEW p \in Nat, NEW c \in Nat
  PROVE  /\ Row0(p, c) \in Nat /\ Row0(p, 0) \in Nat
         /\ Row0(p, c) + 322 = Row0(p, c + 1)
<1> DEFINE y == (p \div 8) \div 80
           x == (p \div 8) % 80
<1>1. y \in Nat /\ x \in Nat
  BY Passes0, SMT
<1> HIDE DEF y, x
<1>2. /\ config.base_addr + 644 * y + 4 * x + 322 * c \in Nat
      /\ config.base_addr + 644 * y + 4 * x + 322 * 0 \in Nat
      /\ (config.base_addr + 644 * y + 4 * x + 322 * c) + 322 = config.base_addr + 644 * y + 4 * x + 322 * (c + 1)
  BY <1>1, SMT
<1> QED
  BY <1>2 DEF Row0, y, x

\* The address that the fetcher gives is that of the row it is at.
LEMMA AddrOut0 ==
  ASSUME TInv, Produces0, control.running
  PROVE  F0!addr_out = F0!Address(Row0(at0.pass, value_ag.count))
<1>1. CASE value_ag.count = 0
  BY <1>1, Zenon DEF F0!addr_out, Produces0
<1>2. CASE value_ag.count # 0
  BY <1>2, Zenon DEF F0!addr_out, Produces0
<1> QED
  BY <1>1, <1>2

\* A cycle moves on to the next row, the next repeat, the next pixel or the next line.
LEMMA Produces0Step ==
  ASSUME TInv, Produces0, Next
  PROVE  Produces0'
<1>1. PICK start \in BOOLEAN, reset \in BOOLEAN :
        /\ Clocked(start, reset)
        /\ start => ~control.running /\ ~reset
        /\ UNCHANGED <<layer, config>> \/ (~control.running /\ ~start)
  BY Steps, Zenon
<1> SUFFICES ASSUME control.running' PROVE Produces0'
  BY Zenon DEF Produces0
<1>2. ~reset /\ (control.running \/ start)
  BY <1>1 DEF Clocked, F1!Clocked
<1>3. config' = config /\ F0!Clocked(start, reset) /\ F0!NextPixel(start) /\ F0!NextValue(start, reset)
  BY <1>1, <1>2, Zenon DEF Clocked, F0!Clocked
<1>4. at0'.pass = IF start THEN 0 ELSE IF F0!last THEN at0.pass + 1 ELSE at0.pass
  BY <1>3 DEF F0!Clocked
<1>5. at0.pass \in Nat /\ config.base_addr \in Nat /\ value_ag.count \in 0 .. 3 /\ value_ag.running = control.running
  BY Addresses DEF TInv, ConfigOK, Configs, Types0, Together
<1>6. ASSUME NEW p \in Nat, NEW c \in Nat PROVE Row0(p, c)' = Row0(p, c)
  BY <1>3 DEF Row0
<1>7. CASE start
  <2>1. at0'.pass = 0 /\ 0 \in Nat
    BY <1>4, <1>7
  <2>2. pixel_ag0' = [addr |-> config.base_addr, pixel_x |-> 0, next_count |-> 0,
                      row_begin |-> F0!Address(config.base_addr + 2 * F0!INPUT_WIDTH)]
    BY <1>3, <1>7, Zenon DEF F0!NextPixel
  <2>3. value_ag'.count = 0
    BY <1>3, <1>7 DEF F0!NextValue
  <2>4. 0 \div 8 = 0 /\ 0 % 8 = 0 /\ 0 \div 80 = 0 /\ 0 % 80 = 0
    BY SMT
  <2>5. Row0(0, 0) = config.base_addr
    <3>1. config.base_addr + 644 * 0 + 4 * 0 + 322 * 0 = config.base_addr
      BY <1>5, SMT
    <3> QED
      BY <2>4, <3>1 DEF Row0
  <2>6. F0!Address(config.base_addr) = config.base_addr
    <3>1. config.base_addr < 2^18
      BY DEF TInv, ConfigOK, Configs, Bytes
    <3> QED
      BY <3>1, <1>5, SMT DEF F0!Address
  <2>7. 644 * (0 + 1) = 2 * F0!INPUT_WIDTH
    BY SMT DEF F0!INPUT_WIDTH
  <2>8. pixel_ag0'.addr = F0!Address(Row0(0, 0))
    BY <2>2, <2>5, <2>6
  <2>9. pixel_ag0'.row_begin = F0!Address(config.base_addr + 644 * ((0 \div 8) \div 80 + 1))
    BY <2>2, <2>4, <2>7
  <2>10. Row0(at0.pass, 0)' = Row0(0, 0)
    BY <1>3, <2>1 DEF Row0
  <2>11. pixel_ag0'.next_count = 0 /\ pixel_ag0'.pixel_x = 0
    BY <2>2
  <2>12. pixel_ag0'.next_count = at0'.pass % 8 /\ pixel_ag0'.pixel_x = (at0'.pass \div 8) % 80
    BY <2>1, <2>4, <2>11, Zenon
  <2>13. pixel_ag0'.row_begin = F0!Address(config.base_addr + 644 * ((at0.pass \div 8) \div 80 + 1))'
    BY <2>1, <2>9, <1>3, Zenon DEF F0!Address
  <2>14. pixel_ag0'.addr = F0!Address(Row0(at0.pass, 0))'
    BY <2>8, <2>10, Zenon DEF F0!Address
  <2> QED
    BY <2>3, <2>12, <2>13, <2>14, Zenon DEF Produces0
<1>8. CASE ~start /\ ~F0!last
  <2>1. at0'.pass = at0.pass /\ pixel_ag0' = pixel_ag0
    BY <1>3, <1>4, <1>8, Zenon DEF F0!NextPixel
  <2>2. control.running /\ value_ag.running
    BY <1>2, <1>5, <1>8
  <2>3. value_ag.count # 3
    BY <1>8, <2>2 DEF F0!last
  <2>4. value_ag'.count = value_ag.count + 1 /\ value_ag.count + 1 \in Nat
    <3>1. value_ag'.count = (value_ag.count + 1) % 4
      BY <1>2, <1>3, <1>8, <2>2 DEF F0!NextValue
    <3> QED
      BY <1>5, <3>1, <2>3, SMT
  <2>5. value_ag'.next_row = F0!Address(Row0(at0.pass, value_ag.count + 1))
    <3>1. value_ag'.next_row = F0!Address(F0!addr_out + F0!INPUT_WIDTH)
      BY <1>3 DEF F0!NextValue
    <3>2. value_ag'.next_row = ((Row0(at0.pass, value_ag.count) % 2^18) + 322) % 2^18
      BY <3>1, <2>2, AddrOut0 DEF F0!Address, F0!INPUT_WIDTH
    <3>3. value_ag.count \in Nat
      BY <1>5, SMT
    <3>4. Row0(at0.pass, value_ag.count) \in Nat /\ Row0(at0.pass, value_ag.count) + 322 = Row0(at0.pass, value_ag.count + 1)
      BY <1>5, <3>3, Row0Type
    <3>5. value_ag'.next_row = (Row0(at0.pass, value_ag.count) + 322) % 2^18
      BY <3>2, <3>4, Wraps
    <3> QED
      BY <3>4, <3>5 DEF F0!Address
  <2>6. Row0(at0.pass, 0)' = Row0(at0.pass, 0) /\ Row0(at0.pass, value_ag.count)' = Row0(at0.pass, value_ag.count + 1)
    BY <1>3, <2>1, <2>4 DEF Row0
  <2>7. value_ag'.next_row = F0!Address(Row0(at0.pass, value_ag.count))'
    BY <2>5, <2>6, Zenon DEF F0!Address
  <2>9. /\ pixel_ag0.next_count = at0.pass % 8 /\ pixel_ag0.pixel_x = (at0.pass \div 8) % 80
        /\ pixel_ag0.addr = F0!Address(Row0(at0.pass, 0))
        /\ pixel_ag0.row_begin = F0!Address(config.base_addr + 644 * ((at0.pass \div 8) \div 80 + 1))
    BY <2>2, Zenon DEF Produces0
  <2>10. F0!Address(config.base_addr + 644 * ((at0.pass \div 8) \div 80 + 1))'
           = F0!Address(config.base_addr + 644 * ((at0.pass \div 8) \div 80 + 1))
    BY <2>1, <1>3 DEF F0!Address
  <2>11. F0!Address(Row0(at0.pass, 0))' = F0!Address(Row0(at0.pass, 0))
    BY <2>6 DEF F0!Address
  <2>8. /\ pixel_ag0'.next_count = at0'.pass % 8 /\ pixel_ag0'.pixel_x = (at0'.pass \div 8) % 80
        /\ pixel_ag0'.addr = F0!Address(Row0(at0.pass, 0))'
        /\ pixel_ag0'.row_begin = F0!Address(config.base_addr + 644 * ((at0.pass \div 8) \div 80 + 1))'
    BY <2>1, <2>9, <2>10, <2>11
  <2> QED
    BY <2>7, <2>8, Zenon DEF Produces0
<1>9. CASE ~start /\ F0!last
  <2> DEFINE p == at0.pass
             y == (p \div 8) \div 80
             x == (p \div 8) % 80
  <2>1. control.running /\ value_ag.running /\ at0'.pass = p + 1
    BY <1>2, <1>4, <1>5, <1>9
  <2>2. value_ag'.count = 0
    <3>1. value_ag'.count = (value_ag.count + 1) % 4
      BY <1>2, <1>3, <1>9, <2>1 DEF F0!NextValue
    <3> QED
      BY <1>9, <3>1, SMT DEF F0!last
  <2>3. /\ pixel_ag0.next_count = p % 8 /\ pixel_ag0.pixel_x = x
        /\ pixel_ag0.addr = F0!Address(Row0(p, 0))
        /\ pixel_ag0.row_begin = F0!Address(config.base_addr + 644 * (y + 1))
    BY <2>1, Zenon DEF Produces0
  <2>4. p \in Nat /\ p + 1 \in Nat /\ y \in Nat /\ x \in 0 .. 79 /\ p % 8 \in 0 .. 7
    BY <1>5, Passes0, SMT
  <2>5. Row0(p, 0) = config.base_addr + 644 * y + 4 * x
    <3> HIDE DEF y, x
    <3>1. config.base_addr + 644 * y + 4 * x + 322 * 0 = config.base_addr + 644 * y + 4 * x
      BY <1>5, <2>4, SMT
    <3> QED
      BY <3>1 DEF Row0, y, x
  <2>6. Row0(p + 1, 0) = config.base_addr + 644 * (((p + 1) \div 8) \div 80) + 4 * (((p + 1) \div 8) % 80)
    <3> DEFINE z == ((p + 1) \div 8) \div 80
               w == ((p + 1) \div 8) % 80
    <3>1. z \in Nat /\ w \in Nat
      BY <2>4, Passes0, SMT
    <3> HIDE DEF z, w
    <3>2. config.base_addr + 644 * z + 4 * w + 322 * 0 = config.base_addr + 644 * z + 4 * w
      BY <1>5, <3>1, SMT
    <3> QED
      BY <3>2 DEF Row0, z, w
  <2>7. \* The registers for the next pass.
        /\ pixel_ag0'.next_count = (p + 1) % 8
        /\ pixel_ag0'.pixel_x = ((p + 1) \div 8) % 80
        /\ pixel_ag0'.addr = F0!Address(Row0(p + 1, 0))
        /\ pixel_ag0'.row_begin = F0!Address(config.base_addr + 644 * (((p + 1) \div 8) \div 80 + 1))
    <3>1. CASE p % 8 # 7
      <4>1. pixel_ag0.next_count < F0!Repeats - 1
        BY <2>3, <2>4, <3>1, SMT DEF F0!Repeats
      <4>2. pixel_ag0' = [pixel_ag0 EXCEPT !.next_count = @ + 1]
        BY <1>3, <1>9, <4>1, Zenon DEF F0!NextPixel
      <4>3. (p + 1) \div 8 = p \div 8 /\ (p + 1) % 8 = (p % 8) + 1
        BY <2>4, <3>1, Passes0
      <4>4. Row0(p + 1, 0) = Row0(p, 0)
        BY <4>3 DEF Row0
      <4>5. /\ pixel_ag0'.next_count = pixel_ag0.next_count + 1 /\ pixel_ag0'.pixel_x = pixel_ag0.pixel_x
            /\ pixel_ag0'.addr = pixel_ag0.addr /\ pixel_ag0'.row_begin = pixel_ag0.row_begin
        BY <4>2 DEF TInv, Types0
      <4> QED
        BY <2>3, <4>3, <4>4, <4>5
    <3>2. CASE p % 8 = 7 /\ x # 79
      <4>1. ~(pixel_ag0.next_count < F0!Repeats - 1) /\ ~F0!last_x
        BY <2>3, <2>4, <3>2, SMT DEF F0!Repeats, F0!last_x, F0!NUM_ADDRESSES_X
      <4>2. pixel_ag0' = [pixel_ag0 EXCEPT !.addr = F0!Address(@ + 4), !.pixel_x = @ + 1, !.next_count = 0]
        BY <1>3, <1>9, <4>1, Zenon DEF F0!NextPixel
      <4>3. pixel_ag0' = [addr |-> F0!Address(pixel_ag0.addr + 4), pixel_x |-> pixel_ag0.pixel_x + 1,
                          row_begin |-> pixel_ag0.row_begin, next_count |-> 0]
        BY <4>2, Zenon DEF TInv, Types0
      <4>4. (p + 1) % 8 = 0 /\ ((p + 1) \div 8) \div 80 = y /\ ((p + 1) \div 8) % 80 = x + 1
        BY <2>4, <3>2, Passes0
      <4>5. Row0(p + 1, 0) = Row0(p, 0) + 4 /\ Row0(p, 0) \in Nat
        <5>1. Row0(p + 1, 0) = config.base_addr + 644 * y + 4 * (x + 1)
          BY <2>6, <4>4
        <5> HIDE DEF x, y
        <5> QED
          BY <1>5, <2>4, <2>5, <5>1, SMT
      <4>6. F0!Address(pixel_ag0.addr + 4) = F0!Address(Row0(p + 1, 0))
        BY <2>3, <4>5, Wraps DEF F0!Address
      <4> QED
        BY <2>3, <4>3, <4>4, <4>6
    <3>3. CASE p % 8 = 7 /\ x = 79
      <4>1. ~(pixel_ag0.next_count < F0!Repeats - 1) /\ F0!last_x
        BY <2>3, <2>4, <3>3, SMT DEF F0!Repeats, F0!last_x, F0!NUM_ADDRESSES_X
      <4>2. pixel_ag0' = [addr |-> pixel_ag0.row_begin, pixel_x |-> 0, next_count |-> 0,
                          row_begin |-> F0!Address(pixel_ag0.row_begin + 2 * F0!INPUT_WIDTH)]
        BY <1>3, <1>9, <4>1, Zenon DEF F0!NextPixel
      <4>3. (p + 1) % 8 = 0 /\ ((p + 1) \div 8) \div 80 = y + 1 /\ ((p + 1) \div 8) % 80 = 0
        BY <2>4, <3>3, Passes0
      <4>4. Row0(p + 1, 0) = config.base_addr + 644 * (y + 1)
        <5>1. Row0(p + 1, 0) = config.base_addr + 644 * (y + 1) + 4 * 0
          BY <2>6, <4>3
        <5> HIDE DEF x, y
        <5> QED
          BY <1>5, <2>4, <5>1, SMT
      <4>5. F0!Address(pixel_ag0.row_begin + 2 * F0!INPUT_WIDTH) = F0!Address(config.base_addr + 644 * ((y + 1) + 1))
        <5> HIDE DEF y
        <5>1. config.base_addr + 644 * (y + 1) \in Nat /\ 644 \in Nat
          BY <1>5, <2>4, SMT
        <5>2. (config.base_addr + 644 * (y + 1)) + 644 = config.base_addr + 644 * ((y + 1) + 1)
          BY <1>5, <2>4, SMT
        <5>3. 2 * F0!INPUT_WIDTH = 644
          BY SMT DEF F0!INPUT_WIDTH
        <5>4. (((config.base_addr + 644 * (y + 1)) % 2^18) + 644) % 2^18 = ((config.base_addr + 644 * (y + 1)) + 644) % 2^18
          BY <5>1, Wraps
        <5> QED
          BY <2>3, <5>2, <5>3, <5>4 DEF F0!Address
      <4> QED
        BY <2>3, <4>2, <4>3, <4>4, <4>5
    <3> QED
      BY <3>1, <3>2, <3>3
  <2>8. Row0(at0.pass, 0)' = Row0(p + 1, 0)
    BY <1>3, <2>1 DEF Row0
  <2> HIDE DEF p, x, y
  <2> QED
    BY <2>1, <2>2, <2>7, <2>8, <1>3 DEF Produces0, F0!Address
<1> QED
  BY <1>7, <1>8, <1>9

-----------------------------------------------------------------------------
(* The input layer: the words that arrive.                                 *)

\* The halves of two words.
LEMMA Halves ==
  ASSUME NEW f \in [1 .. 4 -> Nat], NEW g \in [1 .. 4 -> Nat]
  PROVE  SubSeq(f, 3, 4) \o SubSeq(g, 1, 2) = [i \in 1 .. 4 |-> IF i <= 2 THEN f[i + 2] ELSE g[i - 2]]
<1>1. f \in Seq(Nat) /\ Len(f) = 4 /\ g \in Seq(Nat) /\ Len(g) = 4
  <2>1. ASSUME NEW h \in [1 .. 4 -> Nat] PROVE h \in Seq(Nat) /\ Len(h) = 4
    <3>1. h = [i \in 1 .. 4 |-> h[i]] /\ \A i \in 1 .. 4 : h[i] \in Nat
      OBVIOUS
    <3>2. [i \in 1 .. 4 |-> h[i]] \in Seq(Nat) /\ Len([i \in 1 .. 4 |-> h[i]]) = 4
      BY <3>1, SMT
    <3> QED
      BY <3>1, <3>2
  <2> QED
    BY <2>1
<1> DEFINE s == SubSeq(f, 3, 4)
           t == SubSeq(g, 1, 2)
<1>2. s \in Seq(Nat) /\ Len(s) = 2 /\ s[1] = f[3] /\ s[2] = f[4]
  BY <1>1, SMT
<1>3. t \in Seq(Nat) /\ Len(t) = 2 /\ t[1] = g[1] /\ t[2] = g[2]
  BY <1>1, SMT
<1> HIDE DEF s, t
<1> DEFINE u == s \o t
<1>4. /\ u \in Seq(Nat) /\ Len(u) = Len(s) + Len(t)
      /\ \A i \in 1 .. Len(s) + Len(t) : u[i] = IF i <= Len(s) THEN s[i] ELSE t[i - Len(s)]
  BY <1>2, <1>3, ConcatProperties, Zenon
<1> HIDE DEF u
<1>5. Len(u) = 4 /\ \A i \in 1 .. 4 : u[i] = IF i <= 2 THEN s[i] ELSE t[i - 2]
  BY <1>2, <1>3, <1>4, SMT
<1>6. u = [i \in 1 .. 4 |-> u[i]]
  BY <1>4, <1>5, LenProperties
<1>7. ASSUME NEW i \in 1 .. 4
      PROVE  u[i] = IF i <= 2 THEN f[i + 2] ELSE g[i - 2]
  <2>1. CASE i = 1
    BY <1>2, <1>5, <2>1, SMT
  <2>2. CASE i = 2
    BY <1>2, <1>5, <2>2, SMT
  <2>3. CASE i = 3
    BY <1>3, <1>5, <2>3, SMT
  <2>4. CASE i = 4
    BY <1>3, <1>5, <2>4, SMT
  <2> QED
    BY <2>1, <2>2, <2>3, <2>4, SMT
<1>8. u = [i \in 1 .. 4 |-> IF i <= 2 THEN f[i + 2] ELSE g[i - 2]]
  BY <1>6, <1>7
<1> QED
  BY <1>8 DEF u, s, t

\* A byte's address in its word, and its word's in the RAMs.
LEMMA Split ==
  ASSUME NEW a \in Nat
  PROVE  /\ (a \div 2) % 2 \in 0 .. 1 /\ (a \div 4) % 4 \in Ports
         /\ 16 * (a \div 16) + 4 * ((a \div 4) % 4) = a - (a % 4)
         /\ a % 2 = 0 => a % 4 = 2 * ((a \div 2) % 2)
<1>1. (a \div 2) % 2 \in 0 .. 1
  BY SMT
<1>2. (a \div 4) % 4 \in Ports
  BY SMT DEF Ports
<1>3. 16 * (a \div 16) + 4 * ((a \div 4) % 4) = a - (a % 4)
  BY SMT
<1>4. a % 2 = 0 => a % 4 = 2 * ((a \div 2) % 2)
  BY SMT
<1> QED
  BY <1>1, <1>2, <1>3, <1>4

\* The word after a byte's.
LEMMA SplitNext ==
  ASSUME NEW a \in Nat, a < 2^18
  PROVE  LET b == (a + 4) % 2^18 IN
         /\ b \in Nat
         /\ b \div 16 = IF (a \div 4) % 4 = 3 THEN (a \div 16 + 1) % 2^14 ELSE a \div 16
         /\ (b \div 4) % 4 = (((a \div 4) % 4) + 1) % 4
         /\ b % 4 = a % 4
<1> DEFINE b == (a + 4) % 2^18
<1>1. b \in Nat
  BY SMT
<1>2. b \div 16 = IF (a \div 4) % 4 = 3 THEN (a \div 16 + 1) % 2^14 ELSE a \div 16
  BY SMT
<1>3. (b \div 4) % 4 = (((a \div 4) % 4) + 1) % 4
  BY SMT
<1>4. b % 4 = a % 4
  BY SMT
<1> QED
  BY <1>1, <1>2, <1>3, <1>4

\* Neighbours of an even address.
LEMMA Neighbours ==
  ASSUME NEW a \in Nat, a < 2^18, a % 2 = 0, NEW i \in 1 .. 4
  PROVE  /\ a % 4 = 0 => /\ (a + (i - 1)) % 2^18 = a + i - 1
                         /\ i <= 2 => (a + (i + 1)) % 2^18 = a + i + 1
                         /\ i > 2 => (a + (i + 1)) % 2^18 = ((a + 4) % 2^18) + i - 3
         /\ a % 4 = 2 => /\ i <= 2 => (a + (i - 1)) % 2^18 = a + i - 1
                         /\ i > 2 => (a + (i - 1)) % 2^18 = ((a + 4) % 2^18) - 2 + i - 3
                         /\ (a + (i + 1)) % 2^18 = ((a + 4) % 2^18) - 2 + i - 1
<1>1. CASE a % 4 = 0
  <2>1. (a + (i - 1)) % 2^18 = a + i - 1
    BY <1>1, SMT
  <2>2. i <= 2 => (a + (i + 1)) % 2^18 = a + i + 1
    BY <1>1, SMT
  <2>3. i > 2 => (a + (i + 1)) % 2^18 = ((a + 4) % 2^18) + i - 3
    BY <1>1, SMT
  <2> QED
    BY <1>1, <2>1, <2>2, <2>3, SMT
<1>2. CASE a % 4 = 2
  <2>1. i <= 2 => (a + (i - 1)) % 2^18 = a + i - 1
    BY <1>2, SMT
  <2>2. i > 2 => (a + (i - 1)) % 2^18 = ((a + 4) % 2^18) - 2 + i - 3
    BY <1>2, SMT
  <2>3. (a + (i + 1)) % 2^18 = ((a + 4) % 2^18) - 2 + i - 1
    BY <1>2, SMT
  <2> QED
    BY <1>2, <2>1, <2>2, <2>3, SMT
<1> QED
  BY <1>1, <1>2

\* A row of the even window of the input layer begins at an even address.
LEMMA EvenRow ==
  ASSUME TInv, layer # None, config.mode = 0, NEW p \in Nat, NEW c \in 0 .. 3
  PROVE  LET a == F0!Address(Row0(p, c)) IN
         a \in Nat /\ a < 2^18 /\ a % 2 = 0 /\ Row0(p, c) \in Nat
<1>1. layer \in Layers /\ config = Registers(layer)
  BY DEF TInv, ConfigOK
<1>2. layer.mode = 0
  <2>1. layer.mode \in {0, 1}
    BY <1>1, LayersAssumption
  <2>2. layer.mode # 0 => config.mode = 1
    BY <1>1 DEF Registers
  <2> QED
    BY <2>1, <2>2
<1>3. config.base_addr = layer.base
  <2>1. config = [config EXCEPT !.mode = 0, !.base_addr = layer.base, !.input_channel_depth = 1,
                                !.output_channel_depth = 16]
    BY <1>1, <1>2, Zenon DEF Registers
  <2>2. ASSUME NEW c1 \in Configs, NEW b
        PROVE  [c1 EXCEPT !.mode = 0, !.base_addr = b, !.input_channel_depth = 1,
                          !.output_channel_depth = 16].base_addr = b
    BY DEF Configs
  <2>3. config \in Configs
    BY DEF TInv, ConfigOK
  <2> DEFINE e == [config EXCEPT !.mode = 0, !.base_addr = layer.base, !.input_channel_depth = 1,
                                 !.output_channel_depth = 16]
  <2>4. e.base_addr = layer.base
    BY <2>2, <2>3
  <2>5. config = e
    BY <2>1
  <2> HIDE DEF e
  <2> QED
    BY <2>4, <2>5
<1>4. config.base_addr \in Nat /\ config.base_addr % 2 = 0
  BY <1>1, <1>2, <1>3, LayersAssumption, Addresses DEF TInv, ConfigOK, Configs
<1> DEFINE y == (p \div 8) \div 80
           x == (p \div 8) % 80
           r == Row0(p, c)
<1>5. y \in Nat /\ x \in Nat
  BY Passes0, SMT
<1>6. r = config.base_addr + 644 * y + 4 * x + 322 * c
  BY DEF Row0
<1> HIDE DEF y, x, r
<1>7. r \in Nat /\ r % 2 = 0
  <2>1. r = config.base_addr + 2 * (322 * y + 2 * x + 161 * c) /\ 322 * y + 2 * x + 161 * c \in Nat
    BY <1>4, <1>5, <1>6, SMT
  <2> QED
    BY <1>4, <2>1, SMT
<1>8. r % 2^18 \in Nat /\ r % 2^18 < 2^18 /\ (r % 2^18) % 2 = 0
  BY <1>7, SMT
<1> QED
  BY <1>7, <1>8 DEF r, F0!Address

\* What the words that arrive hold of the rows of both windows.
LEMMA Arrived0 ==
  ASSUME TInv, layer # None, config.mode = 0, Even0, at0.even # None
  PROVE  LET r == Row0(at0.even.pass, at0.even.count) IN
         /\ F0!data_out_0 = [i \in 1 .. 4 |-> F0!Address(r + (i - 1))]
         /\ (IF reader.byte_sel = 0 THEN F0!Mixed ELSE F0!Word(3))
              = [i \in 1 .. 4 |-> F0!Address(r + (i + 1))]
<1> DEFINE r == Row0(at0.even.pass, at0.even.count)
           a == r % 2^18
           b == (a + 4) % 2^18
           h == (a \div 4) % 4
<1>1. /\ reader.byte_sel = (a \div 2) % 2 /\ ram.phase = h
      /\ ram.addr[Partner(ram.phase, 0)] = a \div 16
      /\ ram.addr[Partner(ram.phase, 3)] = b \div 16
      /\ at0.even.pass \in Nat /\ at0.even.count \in 0 .. 3
  BY DEF Even0, F0!Address
<1>2. a \in Nat /\ a < 2^18 /\ a % 2 = 0 /\ r \in Nat
  BY <1>1, EvenRow DEF F0!Address
<1> HIDE DEF r
<1>3. /\ h \in Ports /\ b \in Nat
      /\ 16 * (a \div 16) + 4 * h = a - (a % 4)
      /\ 16 * (b \div 16) + 4 * ((h + 1) % 4) = b - (a % 4)
      /\ a % 4 = 2 * reader.byte_sel /\ reader.byte_sel \in 0 .. 1
  <2>1. b \in Nat /\ (b \div 4) % 4 = (h + 1) % 4 /\ b % 4 = a % 4
    BY <1>2, SplitNext
  <2>2. 16 * (b \div 16) + 4 * ((b \div 4) % 4) = b - (b % 4)
    BY <2>1, Split
  <2>3. h \in Ports /\ 16 * (a \div 16) + 4 * h = a - (a % 4) /\ a % 4 = 2 * reader.byte_sel
        /\ reader.byte_sel \in 0 .. 1
    BY <1>1, <1>2, Split
  <2> HIDE DEF a, b, h
  <2> QED
    BY <2>1, <2>2, <2>3
<1>4. F0!Partner(ram.phase, 0) = h /\ F0!Partner(ram.phase, 3) = (h + 1) % 4
      /\ Partner(ram.phase, 0) = h /\ Partner(ram.phase, 3) = (h + 1) % 4
  <2> HIDE DEF a, b, h
  <2>1. (h - 0) % 4 = h /\ (h - 3) % 4 = (h + 1) % 4
    BY <1>3, SMT DEF Ports
  <2> QED
    BY <1>1, <2>1 DEF F0!Partner, Partner
<1> DEFINE w0 == F0!Word(0)
           w3 == F0!Word(3)
           o == a % 4
<1>5. w0 = [i \in 1 .. 4 |-> a - o + i - 1] /\ w3 = [i \in 1 .. 4 |-> b - o + i - 1]
  <2> DEFINE q == a \div 16
             s == b \div 16
  <2>1. F0!Word(0) = [i \in 1 .. 4 |-> 16 * q + 4 * h + i - 1]
    <3>1. F0!Word(0) = [i \in 1 .. 4 |-> 16 * ram.addr[F0!Partner(ram.phase, 0)]
                                           + 4 * F0!Partner(ram.phase, 0) + i - 1]
      BY Zenon DEF F0!Word
    <3>2. ram.addr[F0!Partner(ram.phase, 0)] = q /\ F0!Partner(ram.phase, 0) = h
      <4> HIDE DEF a, b, h
      <4> QED
        BY <1>1, <1>4
    <3> HIDE DEF q, s, h
    <3> QED
      BY <3>1, <3>2, Zenon
  <2>2. F0!Word(3) = [i \in 1 .. 4 |-> 16 * s + 4 * ((h + 1) % 4) + i - 1]
    <3>1. F0!Word(3) = [i \in 1 .. 4 |-> 16 * ram.addr[F0!Partner(ram.phase, 3)]
                                           + 4 * F0!Partner(ram.phase, 3) + i - 1]
      BY Zenon DEF F0!Word
    <3>2. ram.addr[F0!Partner(ram.phase, 3)] = s /\ F0!Partner(ram.phase, 3) = ((h + 1) % 4)
      <4> HIDE DEF a, b, h
      <4> QED
        BY <1>1, <1>4
    <3> HIDE DEF q, s, h
    <3> QED
      BY <3>1, <3>2, Zenon
  <2>3. 16 * q + 4 * h = a - o /\ 16 * s + 4 * ((h + 1) % 4) = b - o
    BY <1>3
  <2> HIDE DEF q, s, h, a, b, o
  <2> QED
    BY <2>1, <2>2, <2>3, Zenon DEF w0, w3
<1>6. o \in {0, 2} /\ (o = 0 <=> reader.byte_sel = 0)
      /\ \A i \in 1 .. 4 : a - o + i - 1 \in Nat /\ b - o + i - 1 \in Nat
  <2>1. o \in {0, 2} /\ (o = 0 <=> reader.byte_sel = 0)
    <3> HIDE DEF a
    <3> QED
      BY <1>3, SMT DEF o
  <2>2. a >= o /\ b >= o
    <3>1. b % 4 = o
      BY <1>2, SplitNext
    <3> HIDE DEF a, b
    <3> QED
      BY <1>2, <1>3, <3>1, SMT DEF o
  <2> HIDE DEF a, b, o
  <2> QED
    BY <1>2, <1>3, <2>1, <2>2, SMT
<1> DEFINE m == [i \in 1 .. 4 |-> IF i <= 2 THEN a - o + (i + 2) - 1 ELSE b - o + (i - 2) - 1]
<1>7. F0!Mixed = m
  <2>1. w0 \in [1 .. 4 -> Nat] /\ w3 \in [1 .. 4 -> Nat]
    <3> HIDE DEF a, b, o
    <3> QED
      BY <1>5, <1>6
  <2>2. F0!Mixed = [i \in 1 .. 4 |-> IF i <= 2 THEN w0[i + 2] ELSE w3[i - 2]]
    <3> HIDE DEF w0, w3
    <3>1. SubSeq(w0, 3, 4) \o SubSeq(w3, 1, 2) = [i \in 1 .. 4 |-> IF i <= 2 THEN w0[i + 2] ELSE w3[i - 2]]
      BY <2>1, Halves
    <3> QED
      BY <3>1 DEF F0!Mixed, w0, w3
  <2>3. ASSUME NEW i \in 1 .. 4
        PROVE  (IF i <= 2 THEN w0[i + 2] ELSE w3[i - 2]) = m[i]
    <3> HIDE DEF a, b, o, w0, w3
    <3>1. i <= 2 => i + 2 \in 1 .. 4
      BY SMT
    <3>2. ~(i <= 2) => i - 2 \in 1 .. 4
      BY SMT
    <3> QED
      BY <1>5, <3>1, <3>2, Zenon
  <2> HIDE DEF a, b, o, w0, w3
  <2> QED
    BY <2>2, <2>3, Zenon
<1>8. ASSUME NEW i \in 1 .. 4
      PROVE  F0!Address(r + (i - 1)) = (a + (i - 1)) % 2^18 /\ F0!Address(r + (i + 1)) = (a + (i + 1)) % 2^18
  <2>1. i - 1 \in Nat /\ i + 1 \in Nat
    BY SMT
  <2> QED
    BY <1>2, <2>1, Wraps DEF F0!Address
<1>9. CASE o = 0
  <2>1. F0!data_out_0 = w0 /\ (IF reader.byte_sel = 0 THEN F0!Mixed ELSE F0!Word(3)) = m
    BY <1>6, <1>7, <1>9, Zenon DEF F0!data_out_0
  <2>2. ASSUME NEW i \in 1 .. 4
        PROVE  /\ F0!Address(r + (i - 1)) = a - o + i - 1
               /\ F0!Address(r + (i + 1)) = m[i]
    <3>1. /\ (a + (i - 1)) % 2^18 = a + i - 1
          /\ i <= 2 => (a + (i + 1)) % 2^18 = a + i + 1
          /\ i > 2 => (a + (i + 1)) % 2^18 = b + i - 3
      BY <1>2, <1>9, Neighbours
    <3>2. m[i] = IF i <= 2 THEN a - o + (i + 2) - 1 ELSE b - o + (i - 2) - 1
      OBVIOUS
    <3>3. F0!Address(r + (i - 1)) = a + i - 1
      BY <1>8, <3>1
    <3>4. i <= 2 => F0!Address(r + (i + 1)) = a + i + 1
      BY <1>8, <3>1
    <3>5. i > 2 => F0!Address(r + (i + 1)) = b + i - 3
      BY <1>8, <3>1
    <3> HIDE DEF a, b, o, m
    <3> QED
      BY <1>2, <1>3, <1>9, <3>2, <3>3, <3>4, <3>5, SMT
  <2> HIDE DEF a, b, o
  <2>3. F0!data_out_0 = [i \in 1 .. 4 |-> F0!Address(r + (i - 1))]
    BY <1>5, <2>1, <2>2, Zenon
  <2>4. m = [i \in 1 .. 4 |-> F0!Address(r + (i + 1))]
    BY <2>2, Zenon
  <2> QED
    BY <2>1, <2>3, <2>4, Zenon DEF r
<1>10. CASE o = 2
  <2>1. F0!data_out_0 = m /\ (IF reader.byte_sel = 0 THEN F0!Mixed ELSE F0!Word(3)) = w3
    <3>1. reader.byte_sel # 0
      BY <1>6, <1>10
    <3> QED
      BY <1>7, <3>1, Zenon DEF F0!data_out_0
  <2>2. ASSUME NEW i \in 1 .. 4
        PROVE  /\ F0!Address(r + (i - 1)) = m[i]
               /\ F0!Address(r + (i + 1)) = b - o + i - 1
    <3>1. /\ i <= 2 => (a + (i - 1)) % 2^18 = a + i - 1
          /\ i > 2 => (a + (i - 1)) % 2^18 = b - 2 + i - 3
          /\ (a + (i + 1)) % 2^18 = b - 2 + i - 1
      BY <1>2, <1>10, Neighbours
    <3>2. m[i] = IF i <= 2 THEN a - o + (i + 2) - 1 ELSE b - o + (i - 2) - 1
      OBVIOUS
    <3>3. F0!Address(r + (i + 1)) = b - 2 + i - 1
      BY <1>8, <3>1
    <3>4. i <= 2 => F0!Address(r + (i - 1)) = a + i - 1
      BY <1>8, <3>1
    <3>5. i > 2 => F0!Address(r + (i - 1)) = b - 2 + i - 3
      BY <1>8, <3>1
    <3> HIDE DEF a, b, o, m
    <3> QED
      BY <1>2, <1>3, <1>10, <3>2, <3>3, <3>4, <3>5, SMT
  <2> HIDE DEF a, b, o
  <2>3. F0!data_out_0 = [i \in 1 .. 4 |-> F0!Address(r + (i - 1))]
    BY <2>1, <2>2, Zenon
  <2>4. w3 = [i \in 1 .. 4 |-> F0!Address(r + (i + 1))]
    BY <1>5, <2>2, Zenon
  <2> QED
    BY <2>1, <2>3, <2>4, Zenon DEF r
<1> QED
  BY <1>6, <1>9, <1>10

\* What is given to the RAMs arrives in the next cycle.
LEMMA Even0Step ==
  ASSUME TInv, Produces0, Next
  PROVE  Even0'
<1>1. PICK start \in BOOLEAN, reset \in BOOLEAN :
        /\ Clocked(start, reset)
        /\ UNCHANGED <<layer, config>> \/ ~control.running
  BY Steps, Zenon
<1> SUFFICES ASSUME config'.mode = 0, at0'.even # None PROVE Even0'
  BY Zenon DEF Even0
<1>2. F0!Clocked(start, reset) /\ Multiplex(routed_ports)
  BY <1>1 DEF Clocked
<1>3. /\ at0'.even = IF value_ag.running THEN [pass |-> at0.pass, count |-> value_ag.count] ELSE None
      /\ reader'.byte_sel = (F0!addr_out \div 2) % 2
  BY <1>2 DEF F0!Clocked, F0!ReadValues
<1>4. control.running /\ at0'.even = [pass |-> at0.pass, count |-> value_ag.count]
  BY <1>3, Zenon DEF TInv, Together
<1>5. config' = config /\ config.mode = 0
  BY <1>1, <1>4
<1>6. at0'.even.pass = at0.pass /\ at0'.even.count = value_ag.count /\ at0.pass \in Nat /\ value_ag.count \in 0 .. 3
  BY <1>4 DEF TInv, Types0
<1> DEFINE a == F0!addr_out
<1>7. a = F0!Address(Row0(at0.pass, value_ag.count)) /\ a \in Nat /\ a < 2^18
  <2>1. a = F0!Address(Row0(at0.pass, value_ag.count))
    BY <1>4, AddrOut0
  <2>2. Row0(at0.pass, value_ag.count) \in Nat
    <3>1. value_ag.count \in Nat /\ config.base_addr \in Nat
      BY <1>6, Addresses, SMT DEF TInv, ConfigOK, Configs
    <3> QED
      BY <1>6, <3>1, Row0Type
  <2> QED
    BY <2>1, <2>2, Widths, SMT DEF F0!Address
<1>8. F0!Address(Row0(at0.even.pass, at0.even.count))' = a
  BY <1>5, <1>6, <1>7 DEF Row0, F0!Address
<1> HIDE DEF a
<1>9. /\ ram'.phase = (a \div 4) % 4
      /\ ram'.addr[Partner(ram'.phase, 0)] = a \div 16
      /\ ram'.addr[Partner(ram'.phase, 3)] = ((a + 4) % 2^18) \div 16
  <2>1. routed_ports = F0!ports /\ routed_ports \in [addr : [Ports -> Blocks], phase : Ports]
    <3>1. config.mode # 1
      BY <1>5
    <3>2. routed_ports = F0!ports
      BY <3>1, Zenon DEF routed_ports
    <3> QED
      BY <3>2, Ports0 DEF TInv
  <2>2. /\ ram'.phase = F0!ports.phase
        /\ \A i \in Ports : ram'.addr[Partner(F0!ports.phase, i)] = F0!ports.addr[i]
    BY <1>2, <2>1, Arrives
  <2>3. 0 \in Ports /\ 3 \in Ports
    BY DEF Ports
  <2>4. F0!ports.phase = F0!phase /\ F0!ports.addr[0] = F0!PortAddress(0) /\ F0!ports.addr[3] = F0!PortAddress(3)
    BY <2>3 DEF F0!ports, F0!Ports, Ports
  <2>5. F0!PortAddress(0) = F0!block /\ F0!PortAddress(3) = F0!second_block
    BY DEF F0!PortAddress
  <2>6. F0!phase = (a \div 4) % 4 /\ F0!block = a \div 16
    BY DEF F0!phase, F0!block, a
  <2>7. F0!second_block = ((a + 4) % 2^18) \div 16
    <3>1. F0!second_block = IF (a \div 4) % 4 = 3 THEN (a \div 16 + 1) % 2^14 ELSE a \div 16
      BY <2>6, Zenon DEF F0!second_block
    <3> QED
      BY <1>7, <3>1, SplitNext
  <2> QED
    BY <2>2, <2>3, <2>4, <2>5, <2>6, <2>7
<1>10. Partner(ram.phase, 0)' = Partner(ram'.phase, 0) /\ Partner(ram.phase, 3)' = Partner(ram'.phase, 3)
  BY DEF Partner
<1>11. reader'.byte_sel = (a \div 2) % 2
  BY <1>3 DEF a
<1> QED
  BY <1>6, <1>8, <1>9, <1>10, <1>11 DEF Even0

\* The odd window's row is what arrived with the even one's.
LEMMA Odd0Step ==
  ASSUME TInv, Even0, Quiet, Next
  PROVE  Odd0'
<1>1. PICK start \in BOOLEAN, reset \in BOOLEAN :
        /\ Clocked(start, reset)
        /\ UNCHANGED <<layer, config>> \/ (~control.running /\ idle >= 2)
  BY Steps, Zenon
<1> SUFFICES ASSUME layer' # None, config'.mode = 0, at0'.odd # None PROVE Odd0'
  BY Zenon DEF Odd0
<1>2. /\ at0'.odd = at0.even
      /\ reader'.odd = IF reader.byte_sel = 0 THEN F0!Mixed ELSE F0!Word(3)
  BY <1>1 DEF Clocked, F0!Clocked, F0!ReadValues
<1>3. layer' = layer /\ config' = config
  <2>1. ~(~control.running /\ idle >= 1)
    BY <1>2, Zenon DEF Quiet
  <2>2. idle >= 2 => idle >= 1
    BY SMT DEF TInv, Together
  <2> QED
    BY <1>1, <2>1, <2>2, Zenon
<1>4. at0.even # None /\ layer # None /\ config.mode = 0
  BY <1>2, <1>3
<1> DEFINE p == at0.even.pass
           c == at0.even.count
<1>5. p \in Nat /\ c \in 0 .. 3
  BY <1>4 DEF Even0
<1>6. reader'.odd = [i \in 1 .. 4 |-> F0!Address(Row0(p, c) + (i + 1))]
  BY <1>2, <1>4, Arrived0
<1>7. Row0(p, c) \in Nat
  BY <1>4, <1>5, EvenRow
<1>8. Row0(at0.odd.pass, at0.odd.count)' = Row0(p, c)
  BY <1>2, <1>3 DEF Row0
<1> DEFINE r == Row0(p, c)
<1>9. [i \in 1 .. 4 |-> F0!Address(r + (i + 1))] = [i \in 1 .. 4 |-> F0!Address(r + 2 + i - 1)]
  <2> HIDE DEF r
  <2>1. ASSUME NEW i \in 1 .. 4 PROVE r + (i + 1) = r + 2 + i - 1
    BY <1>7, SMT DEF r
  <2> QED
    BY <2>1
<1>10. at0'.odd.pass \in Nat /\ at0'.odd.count \in 0 .. 3
  BY <1>2, <1>5
<1>11. [i \in 1 .. 4 |-> F0!Address(Row0(at0.odd.pass, at0.odd.count) + 2 + i - 1)]'
         = [i \in 1 .. 4 |-> F0!Address(r + 2 + i - 1)]
  <2> HIDE DEF p, c
  <2> QED
    BY <1>8 DEF F0!Address, r
<1> HIDE DEF r
<1>12. reader'.odd = [i \in 1 .. 4 |-> F0!Address(Row0(at0.odd.pass, at0.odd.count) + 2 + i - 1)]'
  BY <1>6, <1>9, <1>11, Zenon DEF r
<1> QED
  BY <1>10, <1>12, Zenon DEF Odd0

\* What is read in a cycle has left two cycles later.
LEMMA QuietStep ==
  ASSUME TInv, Quiet, Next
  PROVE  Quiet'
<1>1. PICK start \in BOOLEAN, reset \in BOOLEAN :
        /\ Clocked(start, reset)
        /\ reset => control.running /\ idle' = 0
        /\ ~reset => idle' = idle \/ (idle' = idle + 1 /\ ~control.running)
  BY Steps, Zenon
<1> SUFFICES ASSUME ~control'.running PROVE Quiet'
  BY Zenon DEF Quiet
<1>2. control'.running = ((control.running \/ start) /\ ~reset)
  BY <1>1 DEF Clocked, F1!Clocked
<1>3. CASE reset
  <2>1. ~(idle' >= 1) /\ ~(idle' >= 2)
    BY <1>1, <1>3, SMT
  <2> QED
    BY <2>1 DEF Quiet
<1>4. CASE ~reset
  <2>1. ~control.running /\ ~value_ag.running
    BY <1>2, <1>4 DEF TInv, Together, Types1
  <2>2. at0'.even = None /\ at0'.odd = at0.even /\ at1'.now = None
    BY <1>1, <2>1 DEF Clocked, F0!Clocked, F1!Clocked
  <2>3. idle \in Nat /\ (idle' = idle \/ idle' = idle + 1)
    BY <1>1, <1>4 DEF TInv, Together
  <2>4. idle' >= 2 => idle >= 1
    BY <2>3, SMT
  <2> QED
    BY <2>1, <2>2, <2>4, Zenon DEF Quiet
<1> QED
  BY <1>3, <1>4

\* The data streams in mode 0 are the windows.
LEMMA Windows0 ==
  ASSUME TInv, Even0, Odd0, layer # None, config.mode = 0
  PROVE  F0!WindowsRight
<1>1. config.base_addr \in Nat
  BY Addresses DEF TInv, ConfigOK, Configs
<1>2. ASSUME NEW p \in Nat, NEW c \in 0 .. 3, NEW odd \in {0, 1}, NEW i \in 1 .. 4
      PROVE  F0!WindowRow(p, c, odd)[i] = F0!Address(Row0(p, c) + 2 * odd + (i - 1))
  <2> DEFINE y == (p \div 8) \div 80
             x == (p \div 8) % 80
  <2>1. F0!WindowRow(p, c, odd)[i] = F0!Address(config.base_addr + (2 * y + c) * 322 + (2 * (2 * x + odd)) + i - 1)
    BY DEF F0!WindowRow, F0!NUM_ADDRESSES_X, F0!Repeats, F0!INPUT_WIDTH
  <2>2. y \in Nat /\ x \in Nat
    BY Passes0, SMT
  <2>3. Row0(p, c) = config.base_addr + 644 * y + 4 * x + 322 * c
    BY DEF Row0
  <2> HIDE DEF y, x
  <2>4. config.base_addr + (2 * y + c) * 322 + (2 * (2 * x + odd)) + i - 1 = Row0(p, c) + 2 * odd + (i - 1)
    BY <1>1, <2>2, <2>3, SMT
  <2> QED
    BY <2>1, <2>4
<1>3. ASSUME NEW p, NEW c, NEW odd
      PROVE  F0!WindowRow(p, c, odd) = [i \in 1 .. 4 |-> F0!WindowRow(p, c, odd)[i]]
  BY DEF F0!WindowRow
<1>4. ASSUME at0.even # None
      PROVE  F0!data_out_0 = F0!WindowRow(at0.even.pass, at0.even.count, 0)
  <2> DEFINE p == at0.even.pass
             c == at0.even.count
  <2>1. p \in Nat /\ c \in 0 .. 3
    BY <1>4 DEF Even0
  <2>2. F0!data_out_0 = [i \in 1 .. 4 |-> F0!Address(Row0(p, c) + (i - 1))]
    BY <1>4, Arrived0
  <2>3. Row0(p, c) \in Nat
    BY <2>1, EvenRow
  <2> HIDE DEF p, c
  <2>4. ASSUME NEW i \in 1 .. 4
        PROVE  F0!WindowRow(p, c, 0)[i] = F0!Address(Row0(p, c) + (i - 1))
    <3>1. F0!WindowRow(p, c, 0)[i] = F0!Address(Row0(p, c) + 2 * 0 + (i - 1))
      BY <1>2, <2>1
    <3>2. Row0(p, c) + 2 * 0 + (i - 1) = Row0(p, c) + (i - 1)
      BY <2>3, SMT
    <3> QED
      BY <3>1, <3>2
  <2>5. F0!WindowRow(p, c, 0) = [i \in 1 .. 4 |-> F0!Address(Row0(p, c) + (i - 1))]
    <3> DEFINE W == F0!WindowRow(p, c, 0)
    <3>1. W = [i \in 1 .. 4 |-> W[i]]
      BY <1>3
    <3> HIDE DEF W
    <3> QED
      BY <2>4, <3>1 DEF W
  <2> QED
    BY <2>2, <2>5 DEF p, c
<1>5. ASSUME at0.odd # None
      PROVE  F0!data_out_1 = F0!WindowRow(at0.odd.pass, at0.odd.count, 1)
  <2> DEFINE p == at0.odd.pass
             c == at0.odd.count
  <2>1. p \in Nat /\ c \in 0 .. 3
    BY <1>5 DEF Odd0
  <2>2. F0!data_out_1 = [i \in 1 .. 4 |-> F0!Address(Row0(p, c) + 2 + i - 1)]
    BY <1>5 DEF Odd0, F0!data_out_1
  <2>3. Row0(p, c) \in Nat
    BY <2>1, EvenRow
  <2> HIDE DEF p, c
  <2>4. ASSUME NEW i \in 1 .. 4
        PROVE  F0!WindowRow(p, c, 1)[i] = F0!Address(Row0(p, c) + 2 + i - 1)
    <3>1. F0!WindowRow(p, c, 1)[i] = F0!Address(Row0(p, c) + 2 * 1 + (i - 1))
      BY <1>2, <2>1
    <3>2. Row0(p, c) + 2 * 1 + (i - 1) = Row0(p, c) + 2 + i - 1
      BY <2>3, SMT
    <3> QED
      BY <3>1, <3>2
  <2>5. F0!WindowRow(p, c, 1) = [i \in 1 .. 4 |-> F0!Address(Row0(p, c) + 2 + i - 1)]
    <3> DEFINE W == F0!WindowRow(p, c, 1)
    <3>1. W = [i \in 1 .. 4 |-> W[i]]
      BY <1>3
    <3> HIDE DEF W
    <3> QED
      BY <2>4, <3>1 DEF W
  <2> QED
    BY <2>2, <2>5 DEF p, c
<1> QED
  BY <1>4, <1>5 DEF F0!WindowsRight

-----------------------------------------------------------------------------
(* The other layers: where the windows lie.                                *)

\* The registers can hold how far apart the rows of the layer's input are.
FitsRegisters(l) == l.mode = 1 => l.depth * l.width < 2^8

\* How far behind the first window's the window of this pixel begins, in blocks.
Block(pixel) ==
  (pixel \div config.num_pixels_x) * config.pixel_advance_y
    + (pixel % config.num_pixels_x) * config.pixel_advance_x

PixelAddr(pixel) == F1!Address(F1!base_addr + Block(pixel))

\* Where the row after the row of this pixel begins.
RowBegin(pixel) ==
  F1!Address(F1!base_addr + (pixel \div config.num_pixels_x + 1) * config.pixel_advance_y)

\* The address of a word of the window of this pixel, and of the row of the window
\* below the word's.
WordAddr(pixel, n) ==
  F1!Address(F1!base_addr + Block(pixel) + (n \div F1!x_size) * config.pixel_advance_y
               + (n % F1!x_size) \div 4)

NextRow(pixel, n) ==
  F1!Address(F1!base_addr + Block(pixel) + (n \div F1!x_size + 1) * config.pixel_advance_y)

length == 64 * F1!depth

\* What the fetcher is configured with for a layer of mode 1 that fits it.
Configured1 ==
  /\ layer # None /\ config.mode = 1
  /\ F1!depth \in 1 .. 4 /\ F1!base_addr \in Nat /\ F1!num_repeats \in 1 .. 127
  /\ F1!x_size = 16 * F1!depth /\ F1!max_cycle_counter = length - 1
  /\ config.num_pixels_x \in 1 .. 2^9 - 1
  /\ config.pixel_advance_x = F1!depth /\ config.pixel_advance_y \in Nat
  /\ layer.width = config.num_pixels_x + 3 /\ config.pixel_advance_y = F1!depth * layer.width

\* What the driver writes for a layer that fits the registers.
LEMMA Configuration1 ==
  ASSUME TInv, layer # None, config.mode = 1, FitsRegisters(layer)
  PROVE  Configured1
<1>1. layer \in Layers /\ config = Registers(layer)
  BY DEF TInv, ConfigOK
<1>2. layer.mode = 1
  <2>1. layer.mode \in {0, 1}
    BY <1>1, LayersAssumption
  <2>2. ASSUME layer.mode = 0 PROVE FALSE
    <3>1. config = [config EXCEPT !.mode = 0, !.base_addr = layer.base, !.input_channel_depth = 1,
                                  !.output_channel_depth = 16]
      BY <1>1, <2>2, Zenon DEF Registers
    <3>2. ASSUME NEW c1 \in Configs, NEW b
          PROVE  [c1 EXCEPT !.mode = 0, !.base_addr = b, !.input_channel_depth = 1,
                            !.output_channel_depth = 16].mode = 0
      BY DEF Configs
    <3>3. config \in Configs
      BY DEF TInv, ConfigOK
    <3> DEFINE e == [config EXCEPT !.mode = 0, !.base_addr = layer.base, !.input_channel_depth = 1,
                                   !.output_channel_depth = 16]
    <3>4. e.mode = 0
      BY <3>2, <3>3
    <3>5. config = e
      BY <3>1
    <3> HIDE DEF e
    <3> QED
      BY <3>4, <3>5
  <2> QED
    BY <2>1, <2>2
<1> DEFINE d == layer.depth
           w == layer.width
           c == layer.channels
<1>3. /\ d \in 1 .. 4 /\ w \in Nat /\ w >= 4 /\ c \in 1 .. 16 /\ c % 4 = 0
      /\ d * w < 2^8
  BY <1>1, <1>2, LayersAssumption DEF FitsRegisters
<1>4. config = [mode |-> 1, base_addr |-> layer.base,
                num_pixels_x |-> (w - 3) % 2^9,
                pixel_advance_x |-> d % 2^4,
                pixel_advance_y |-> (d * w) % 2^8,
                input_channel_depth |-> 16 * d,
                output_channel_depth |-> c]
  <2>1. layer.mode # 0
    BY <1>2
  <2> QED
    BY <1>1, <2>1, Zenon DEF Registers
<1>5. /\ config.num_pixels_x = (w - 3) % 2^9 /\ config.pixel_advance_x = d % 2^4
      /\ config.pixel_advance_y = (d * w) % 2^8 /\ config.input_channel_depth = 16 * d
      /\ config.output_channel_depth = c
  <2> HIDE DEF d, w, c
  <2> QED
    BY <1>4, Zenon
<1> HIDE DEF d, w, c
<1>6. w < 2^8
  <2>1. w <= d * w
    BY <1>3, SMT
  <2> QED
    BY <1>3, <2>1, SMT
<1>7. /\ (w - 3) % 2^9 = w - 3 /\ w - 3 \in 1 .. 2^9 - 1 /\ w = (w - 3) + 3
  BY <1>3, <1>6, SMT
<1>8. (d * w) % 2^8 = d * w /\ d * w \in Nat
  BY <1>3, SMT
<1>9. d % 2^4 = d /\ ((16 * d) \div 16) % 2^3 = d /\ (16 * d) % 2^7 = 16 * d /\ (64 * d - 1) % 2^9 = 64 * d - 1
  BY <1>3, SMT
<1>10. (c \div 2) % 2^7 \in 1 .. 127
  BY <1>3, SMT
<1>11. F1!base_addr \in Nat
  <2>1. config.base_addr \in Nat
    BY Addresses DEF TInv, ConfigOK, Configs
  <2> QED
    BY <2>1, SMT DEF F1!base_addr
<1>12. F1!depth = d
  BY <1>5, <1>9 DEF F1!depth
<1>13. F1!x_size = 16 * F1!depth /\ F1!max_cycle_counter = length - 1
  BY <1>9, <1>12 DEF F1!x_size, F1!max_cycle_counter, length
<1>14. F1!num_repeats \in 1 .. 127
  BY <1>5, <1>10 DEF F1!num_repeats
<1>15. config.pixel_advance_x = F1!depth /\ config.pixel_advance_y = F1!depth * layer.width
       /\ config.pixel_advance_y \in Nat
  BY <1>5, <1>8, <1>9, <1>12 DEF w
<1>16. config.num_pixels_x \in 1 .. 2^9 - 1 /\ layer.width = config.num_pixels_x + 3
  BY <1>5, <1>7 DEF w
<1> QED
  BY <1>3, <1>11, <1>12, <1>13, <1>14, <1>15, <1>16 DEF Configured1

\* Where windows, rows and words lie are numbers of blocks.
LEMMA Types1Blocks ==
  ASSUME Configured1, NEW pixel \in Nat
  PROVE  /\ pixel \div config.num_pixels_x \in Nat
         /\ pixel % config.num_pixels_x \in 0 .. config.num_pixels_x - 1
         /\ Block(pixel) \in Nat
         /\ (pixel \div config.num_pixels_x + 1) * config.pixel_advance_y \in Nat
         /\ F1!base_addr + Block(pixel) \in Nat
<1> DEFINE q == pixel \div config.num_pixels_x
           r == pixel % config.num_pixels_x
<1>1. config.num_pixels_x \in Nat \ {0} /\ F1!depth \in Nat /\ config.pixel_advance_y \in Nat
      /\ config.pixel_advance_x \in Nat /\ F1!base_addr \in Nat
  BY SMT DEF Configured1
<1>2. q \in Nat /\ r \in 0 .. config.num_pixels_x - 1
  BY <1>1, Division
<1> HIDE DEF q, r
<1>3. /\ q * config.pixel_advance_y \in Nat /\ r * config.pixel_advance_x \in Nat
      /\ (q + 1) * config.pixel_advance_y \in Nat
  BY <1>1, <1>2, SMT
<1>4. Block(pixel) = q * config.pixel_advance_y + r * config.pixel_advance_x
  BY DEF Block, q, r
<1>5. Block(pixel) \in Nat /\ F1!base_addr + Block(pixel) \in Nat
  BY <1>1, <1>3, <1>4, SMT
<1> QED
  BY <1>2, <1>3, <1>5 DEF q, r

\* The window of the next pixel is a step to the right, or begins the next row.
LEMMA NextBlock ==
  ASSUME Configured1, NEW pixel \in Nat
  PROVE  /\ pixel % config.num_pixels_x # config.num_pixels_x - 1 =>
              /\ PixelAddr(pixel + 1) = F1!Address(PixelAddr(pixel) + config.pixel_advance_x)
              /\ RowBegin(pixel + 1) = RowBegin(pixel)
              /\ (pixel + 1) % config.num_pixels_x = (pixel % config.num_pixels_x) + 1
         /\ pixel % config.num_pixels_x = config.num_pixels_x - 1 =>
              /\ PixelAddr(pixel + 1) = RowBegin(pixel)
              /\ RowBegin(pixel + 1) = F1!Address(RowBegin(pixel) + config.pixel_advance_y)
              /\ (pixel + 1) % config.num_pixels_x = 0
<1> DEFINE w == config.num_pixels_x
           q == pixel \div w
           r == pixel % w
           ax == config.pixel_advance_x
           ay == config.pixel_advance_y
           b == F1!base_addr
<1>1. w \in Nat \ {0} /\ ax \in Nat /\ ay \in Nat /\ b \in Nat
  BY SMT DEF Configured1
<1>2. /\ r # w - 1 => (pixel + 1) \div w = q /\ (pixel + 1) % w = r + 1
      /\ r = w - 1 => (pixel + 1) \div w = q + 1 /\ (pixel + 1) % w = 0
  BY <1>1, NextQuotient
<1>3. q \in Nat /\ r \in Nat
  <2>1. q \in Nat /\ r \in 0 .. w - 1
    BY <1>1, Division
  <2> QED
    BY <1>1, <2>1, SMT
<1>4. /\ PixelAddr(pixel) = F1!Address(b + (q * ay + r * ax)) /\ RowBegin(pixel) = F1!Address(b + (q + 1) * ay)
  BY DEF PixelAddr, Block, RowBegin
<1>5. CASE r # w - 1
  <2>1. PixelAddr(pixel + 1) = F1!Address(b + (q * ay + (r + 1) * ax))
        /\ RowBegin(pixel + 1) = F1!Address(b + (q + 1) * ay)
    BY <1>2, <1>5 DEF PixelAddr, Block, RowBegin
  <2> HIDE DEF w, q, r, ax, ay, b
  <2>2. b + (q * ay + r * ax) \in Nat /\ b + (q * ay + r * ax) + ax = b + (q * ay + (r + 1) * ax)
    BY <1>1, <1>3, SMT
  <2>3. F1!Address(F1!Address(b + (q * ay + r * ax)) + ax) = F1!Address(b + (q * ay + r * ax) + ax)
    BY <1>1, <2>2, Wraps DEF F1!Address
  <2>4. PixelAddr(pixel + 1) = F1!Address(PixelAddr(pixel) + ax)
    BY <1>4, <2>1, <2>2, <2>3
  <2> QED
    BY <1>2, <1>4, <1>5, <2>1, <2>4 DEF w, q, r, ax, ay, b
<1>6. CASE r = w - 1
  <2>1. PixelAddr(pixel + 1) = F1!Address(b + ((q + 1) * ay + 0 * ax))
        /\ RowBegin(pixel + 1) = F1!Address(b + (q + 1 + 1) * ay)
    BY <1>2, <1>6 DEF PixelAddr, Block, RowBegin
  <2> HIDE DEF w, q, r, ax, ay, b
  <2>2. /\ b + ((q + 1) * ay + 0 * ax) = b + (q + 1) * ay /\ b + (q + 1) * ay \in Nat
        /\ b + (q + 1) * ay + ay = b + (q + 1 + 1) * ay
    BY <1>1, <1>3, SMT
  <2>3. F1!Address(F1!Address(b + (q + 1) * ay) + ay) = F1!Address(b + (q + 1) * ay + ay)
    BY <1>1, <2>2, Wraps DEF F1!Address
  <2>4. PixelAddr(pixel + 1) = RowBegin(pixel) /\ RowBegin(pixel + 1) = F1!Address(RowBegin(pixel) + ay)
    BY <1>4, <2>1, <2>2, <2>3
  <2> QED
    BY <1>2, <1>6, <2>4 DEF w, q, r, ax, ay, b
<1> QED
  BY <1>5, <1>6

\* The first word of a window, the second, and the next word.
LEMMA Words ==
  ASSUME Configured1, NEW pixel \in Nat
  PROVE  /\ WordAddr(pixel, 0) = PixelAddr(pixel) /\ WordAddr(pixel, 1) = PixelAddr(pixel)
         /\ 1 % F1!x_size = 1
         /\ NextRow(pixel, 1) = F1!Address(PixelAddr(pixel) + config.pixel_advance_y)
<1> DEFINE s == F1!x_size
           a == F1!base_addr + Block(pixel)
           ay == config.pixel_advance_y
<1>1. s \in Nat \ {0} /\ 0 \in 0 .. s - 1 /\ 1 \in 0 .. s - 1 /\ ay \in Nat
  BY SMT DEF Configured1
<1>2. a \in Nat
  BY Types1Blocks
<1>3. 0 \div s = 0 /\ 0 % s = 0 /\ 1 \div s = 0 /\ 1 % s = 1
  BY <1>1, Remainder
<1>4. /\ WordAddr(pixel, 0) = F1!Address(a + 0 * ay + 0 \div 4)
      /\ WordAddr(pixel, 1) = F1!Address(a + 0 * ay + 1 \div 4)
      /\ NextRow(pixel, 1) = F1!Address(a + (0 + 1) * ay)
      /\ PixelAddr(pixel) = F1!Address(a)
  BY <1>3 DEF WordAddr, NextRow, PixelAddr
<1> HIDE DEF s, a, ay
<1>5. a + 0 * ay + 0 \div 4 = a /\ a + 0 * ay + 1 \div 4 = a /\ a + (0 + 1) * ay = a + ay
  BY <1>1, <1>2, SMT
<1>6. F1!Address(F1!Address(a) + ay) = F1!Address(a + ay)
  BY <1>1, <1>2, Wraps DEF F1!Address
<1>7. WordAddr(pixel, 0) = PixelAddr(pixel) /\ WordAddr(pixel, 1) = PixelAddr(pixel)
      /\ NextRow(pixel, 1) = F1!Address(PixelAddr(pixel) + ay)
  BY <1>4, <1>5, <1>6
<1> QED
  BY <1>3, <1>7 DEF s, ay

\* The next word of a window: the same block, the next one, or the row below.
LEMMA NextWord ==
  ASSUME Configured1, NEW pixel \in Nat, NEW n \in Nat
  PROVE  LET m == n % F1!x_size IN
         /\ m \in Nat /\ m < F1!x_size
         /\ m = F1!x_size - 1 =>
              /\ (n + 1) % F1!x_size = 0
              /\ WordAddr(pixel, n + 1) = NextRow(pixel, n)
              /\ NextRow(pixel, n + 1) = F1!Address(NextRow(pixel, n) + config.pixel_advance_y)
         /\ m # F1!x_size - 1 =>
              /\ (n + 1) % F1!x_size = m + 1
              /\ NextRow(pixel, n + 1) = NextRow(pixel, n)
              /\ WordAddr(pixel, n + 1) = IF m % 4 = 3 THEN F1!Address(WordAddr(pixel, n) + 1)
                                          ELSE WordAddr(pixel, n)
<1> DEFINE s == F1!x_size
           m == n % s
           q == n \div s
           a == F1!base_addr + Block(pixel)
           ay == config.pixel_advance_y
<1>1. s \in Nat \ {0} /\ ay \in Nat
  BY SMT DEF Configured1
<1>2. a \in Nat
  BY Types1Blocks
<1>3. q \in Nat /\ m \in 0 .. s - 1
  BY <1>1, Division
<1>4. m \in Nat /\ m < s
  BY <1>1, <1>3, SMT
<1>5. /\ m # s - 1 => (n + 1) \div s = q /\ (n + 1) % s = m + 1
      /\ m = s - 1 => (n + 1) \div s = q + 1 /\ (n + 1) % s = 0
  BY <1>1, NextQuotient
<1>6. WordAddr(pixel, n) = F1!Address(a + q * ay + m \div 4) /\ NextRow(pixel, n) = F1!Address(a + (q + 1) * ay)
  BY DEF WordAddr, NextRow
<1>7. CASE m = s - 1
  <2>1. /\ WordAddr(pixel, n + 1) = F1!Address(a + (q + 1) * ay + 0 \div 4)
        /\ NextRow(pixel, n + 1) = F1!Address(a + (q + 1 + 1) * ay)
    BY <1>5, <1>7 DEF WordAddr, NextRow
  <2> HIDE DEF s, m, q, a, ay
  <2>2. /\ a + (q + 1) * ay + 0 \div 4 = a + (q + 1) * ay /\ a + (q + 1) * ay \in Nat
        /\ a + (q + 1 + 1) * ay = a + (q + 1) * ay + ay
    <3>1. (q + 1) * ay \in Nat /\ (q + 1 + 1) * ay = (q + 1) * ay + ay
      BY <1>1, <1>3, SMT
    <3> QED
      BY <1>1, <1>2, <3>1, SMT
  <2>3. F1!Address(F1!Address(a + (q + 1) * ay) + ay) = F1!Address(a + (q + 1) * ay + ay)
    BY <1>1, <2>2, Wraps DEF F1!Address
  <2>4. WordAddr(pixel, n + 1) = NextRow(pixel, n) /\ NextRow(pixel, n + 1) = F1!Address(NextRow(pixel, n) + ay)
    BY <1>6, <2>1, <2>2, <2>3
  <2> QED
    BY <1>4, <1>5, <1>7, <2>4 DEF s, m, ay
<1>8. CASE m # s - 1
  <2>1. /\ WordAddr(pixel, n + 1) = F1!Address(a + q * ay + (m + 1) \div 4)
        /\ NextRow(pixel, n + 1) = F1!Address(a + (q + 1) * ay)
    BY <1>5, <1>8 DEF WordAddr, NextRow
  <2> HIDE DEF s, m, q, a, ay
  <2>2. /\ m % 4 = 3 => (m + 1) \div 4 = m \div 4 + 1
        /\ m % 4 # 3 => (m + 1) \div 4 = m \div 4
        /\ m \div 4 \in Nat
    BY <1>4, SMT
  <2>3. a + q * ay + m \div 4 \in Nat /\ a + q * ay + (m \div 4 + 1) = a + q * ay + m \div 4 + 1
    <3>1. q * ay \in Nat
      BY <1>1, <1>3, SMT
    <3> QED
      BY <1>2, <2>2, <3>1, SMT
  <2>4. F1!Address(F1!Address(a + q * ay + m \div 4) + 1) = F1!Address(a + q * ay + m \div 4 + 1)
    BY <2>3, Wraps, 1 \in Nat DEF F1!Address
  <2>5. CASE m % 4 = 3
    <3>1. WordAddr(pixel, n + 1) = F1!Address(WordAddr(pixel, n) + 1)
      BY <1>6, <2>1, <2>2, <2>3, <2>4, <2>5
    <3> QED
      BY <1>4, <1>5, <1>6, <1>8, <2>1, <2>5, <3>1 DEF s, m
  <2>6. CASE m % 4 # 3
    <3>1. WordAddr(pixel, n + 1) = WordAddr(pixel, n)
      BY <1>6, <2>1, <2>2, <2>6
    <3> QED
      BY <1>4, <1>5, <1>6, <1>8, <2>1, <2>6, <3>1 DEF s, m
  <2> QED
    BY <2>5, <2>6
<1> QED
  BY <1>7, <1>8

-----------------------------------------------------------------------------
(* The other layers: what their fetcher holds.                             *)

\* The first pixel of the block whose windows are read in this pass.
First(p) == 4 * (p \div F1!num_repeats)

\* The pixel whose address the generator has: the addresses of a block are taken in
\* the first cycles of the first of its passes.
Ahead(p, c) ==
  IF p % F1!num_repeats = 0 /\ c < 4 THEN First(p) + c ELSE First(p) + 4

PixelIs(pixel) ==
  pixel_ag1 = [addr |-> PixelAddr(pixel), pixel_x |-> pixel % config.num_pixels_x,
               row_begin |-> RowBegin(pixel)]

ValueIs(i, pixel, n) ==
  value_ags[i] = [addr |-> WordAddr(pixel, n), x_count |-> n % F1!x_size,
                  next_row |-> NextRow(pixel, n)]

Counts1 ==
  control.running /\ Configured1 => control.cycle_counter \in Nat /\ control.cycle_counter < length

Pixels1 ==
  control.running /\ Configured1 => PixelIs(Ahead(at1.pass, control.cycle_counter))

Repeats1 ==
  control.running /\ Configured1 =>
    LET p == at1.pass
        c == control.cycle_counter
    IN  /\ repeater.group = IF c < 4 THEN c ELSE 0
        /\ repeater.repeat_count = IF c < 4 THEN p % F1!num_repeats ELSE (p + 1) % F1!num_repeats
        /\ \A i \in Ports :
             p % F1!num_repeats # 0 \/ i < c => repeater.mem[i] = PixelAddr(First(p) + i)

\* A stream that has not begun with this pass is at the end of the one before.
Values1 ==
  control.running /\ Configured1 =>
    LET p == at1.pass
        c == control.cycle_counter
    IN  \A i \in Ports :
          /\ i < c => ValueIs(i, First(p) + i, c - i)
          /\ c < i /\ p >= 1 => ValueIs(i, First(p - 1) + i, length + c - i)

\* The registers say the same until they are written.
LEMMA Same1 ==
  ASSUME UNCHANGED <<layer, config>>
  PROVE  /\ Configured1' <=> Configured1
         /\ length' = length /\ F1!num_repeats' = F1!num_repeats /\ F1!x_size' = F1!x_size
         /\ F1!base_addr' = F1!base_addr
         /\ \A p : First(p)' = First(p)
         /\ \A p, c : Ahead(p, c)' = Ahead(p, c)
         /\ \A g : PixelAddr(g)' = PixelAddr(g) /\ RowBegin(g)' = RowBegin(g)
         /\ \A g, n : WordAddr(g, n)' = WordAddr(g, n) /\ NextRow(g, n)' = NextRow(g, n)
<1> DEFINE same == layer' = layer /\ config' = config
<1>1. same
  OBVIOUS
<1>2. /\ F1!depth' = F1!depth /\ F1!num_repeats' = F1!num_repeats /\ F1!base_addr' = F1!base_addr
      /\ F1!max_cycle_counter' = F1!max_cycle_counter /\ F1!x_size' = F1!x_size /\ length' = length
  BY <1>1, Zenon DEF F1!depth, F1!num_repeats, F1!base_addr, F1!max_cycle_counter, F1!x_size, length
<1>3. Configured1' <=> Configured1
  BY <1>1, <1>2 DEF Configured1
<1>4. ASSUME NEW p PROVE First(p)' = First(p)
  BY <1>2, Zenon DEF First
<1>5. ASSUME NEW p, NEW c PROVE Ahead(p, c)' = Ahead(p, c)
  BY <1>2, <1>4, Zenon DEF Ahead
<1>6. ASSUME NEW g PROVE Block(g)' = Block(g)
  BY <1>1, Zenon DEF Block
<1>7. ASSUME NEW g PROVE PixelAddr(g)' = PixelAddr(g) /\ RowBegin(g)' = RowBegin(g)
  BY <1>1, <1>2, <1>6, Zenon DEF PixelAddr, RowBegin, F1!Address
<1>8. ASSUME NEW g, NEW n PROVE WordAddr(g, n)' = WordAddr(g, n) /\ NextRow(g, n)' = NextRow(g, n)
  BY <1>1, <1>2, <1>6, Zenon DEF WordAddr, NextRow, F1!Address
<1> QED
  BY <1>2, <1>3, <1>4, <1>5, <1>7, <1>8

\* A cycle after which the fetcher is running: it starts, or goes on with the pass,
\* or begins with the next one.
LEMMA Cycle1 ==
  ASSUME TInv, Counts1, Next, control'.running, Configured1'
  PROVE  /\ Configured1 /\ UNCHANGED <<layer, config>>
         /\ \E start \in BOOLEAN :
              /\ F1!NextPixel(start) /\ F1!Repeat(start)
              /\ value_ags' = [i \in Ports |-> F1!NextValue(i)]
              /\ start => at1'.pass = 0 /\ control'.cycle_counter = 0
              /\ ~start =>
                   /\ control.running
                   /\ control.cycle_counter \in Nat /\ control.cycle_counter < length
                   /\ control.cycle_counter = length - 1 =>
                        at1'.pass = at1.pass + 1 /\ control'.cycle_counter = 0
                   /\ control.cycle_counter # length - 1 =>
                        at1'.pass = at1.pass /\ control'.cycle_counter = control.cycle_counter + 1
<1>1. PICK start \in BOOLEAN, reset \in BOOLEAN :
        /\ Clocked(start, reset)
        /\ start => ~control.running /\ ~reset
        /\ UNCHANGED <<layer, config>> \/ (~control.running /\ ~start)
  BY Steps, Zenon
<1>2. F1!Clocked(start, reset)
  BY <1>1 DEF Clocked
<1>3. ~reset /\ (control.running \/ start)
  BY <1>2 DEF F1!Clocked
<1>4. UNCHANGED <<layer, config>>
  BY <1>1, <1>3
<1>5. Configured1
  BY <1>4, Same1
<1>6. F1!NextPixel(start) /\ F1!Repeat(start) /\ value_ags' = [i \in Ports |-> F1!NextValue(i)]
  BY <1>2 DEF F1!Clocked, F1!Streams, F1!Ports, Ports
<1> DEFINE c == control.cycle_counter
           counts == control.running /\ ~reset /\ ~start
           over == c = F1!max_cycle_counter
<1>7. /\ control'.cycle_counter = IF (start /\ ~reset) \/ (counts /\ over) THEN 0
                                  ELSE IF counts THEN (c + 1) % 2^9 ELSE c
      /\ at1'.pass = IF start THEN 0 ELSE IF counts /\ over THEN at1.pass + 1 ELSE at1.pass
  BY <1>2 DEF F1!Clocked
<1>8. CASE start
  <2>1. at1'.pass = 0 /\ control'.cycle_counter = 0
    BY <1>3, <1>7, <1>8, Zenon
  <2> QED
    BY <1>1, <1>4, <1>5, <1>6, <1>8, <2>1, Zenon
<1>9. CASE ~start
  <2>1. control.running /\ counts
    BY <1>3, <1>9
  <2>2. c \in Nat /\ c < length
    BY <1>5, <2>1 DEF Counts1
  <2>3. F1!max_cycle_counter = length - 1 /\ length \in Nat /\ length <= 256
    BY <1>5, SMT DEF Configured1, length
  <2>4. (c + 1) % 2^9 = c + 1
    BY <2>2, <2>3, SMT
  <2>5. c = length - 1 => at1'.pass = at1.pass + 1 /\ control'.cycle_counter = 0
    BY <1>7, <1>9, <2>1, <2>3, Zenon
  <2>6. c # length - 1 => at1'.pass = at1.pass /\ control'.cycle_counter = c + 1
    BY <1>7, <1>9, <2>1, <2>3, <2>4, Zenon
  <2> QED
    BY <1>4, <1>5, <1>6, <1>9, <2>1, <2>2, <2>5, <2>6, Zenon
<1> QED
  BY <1>8, <1>9

\* The cycle counter stays below the length of a pass.
LEMMA Counts1Step ==
  ASSUME TInv, Counts1, Next
  PROVE  Counts1'
<1> SUFFICES ASSUME control'.running, Configured1' 
             PROVE  control'.cycle_counter \in Nat /\ control'.cycle_counter < length'
  BY Zenon DEF Counts1
<1> DEFINE c == control.cycle_counter
           k == control'.cycle_counter
<1>1. /\ Configured1 /\ UNCHANGED <<layer, config>>
      /\ \/ k = 0
         \/ c \in Nat /\ c < length /\ c # length - 1 /\ k = c + 1
  BY Cycle1, Zenon
<1>2. length' = length /\ length \in Nat /\ length >= 64
  <2>1. length' = length
    BY <1>1, Same1
  <2>2. length \in Nat /\ length >= 64
    BY <1>1, SMT DEF length, Configured1
  <2> QED
    BY <2>1, <2>2
<1> HIDE DEF c, k
<1>3. k \in Nat /\ k < length
  BY <1>1, <1>2, SMT
<1> QED
  BY <1>2, <1>3 DEF k

\* The numbers of a block, now and in the next pass.
LEMMA Blocks1 ==
  ASSUME Configured1, NEW p \in Nat
  PROVE  /\ p % F1!num_repeats \in Nat /\ p % F1!num_repeats < F1!num_repeats
         /\ First(p) \in Nat
         /\ F1!num_repeats \in Nat \ {0} /\ F1!num_repeats <= 127
         /\ p % F1!num_repeats = F1!num_repeats - 1 =>
              (p + 1) % F1!num_repeats = 0 /\ First(p + 1) = First(p) + 4
         /\ p % F1!num_repeats # F1!num_repeats - 1 =>
              (p + 1) % F1!num_repeats = (p % F1!num_repeats) + 1 /\ First(p + 1) = First(p)
<1> DEFINE n == F1!num_repeats
           q == p \div n
           r == p % n
<1>1. n \in Nat \ {0} /\ n <= 127
  BY SMT DEF Configured1
<1>2. q \in Nat /\ r \in 0 .. n - 1
  BY <1>1, Division
<1>3. /\ r # n - 1 => (p + 1) \div n = q /\ (p + 1) % n = r + 1
      /\ r = n - 1 => (p + 1) \div n = q + 1 /\ (p + 1) % n = 0
  BY <1>1, NextQuotient
<1>4. First(p) = 4 * q /\ First(p + 1) = 4 * ((p + 1) \div n)
  BY DEF First
<1> HIDE DEF n, q, r
<1>5. r \in Nat /\ r < n /\ 4 * q \in Nat /\ 4 * (q + 1) = 4 * q + 4
  BY <1>1, <1>2, SMT
<1>6. /\ r = n - 1 => (p + 1) % n = 0 /\ First(p + 1) = First(p) + 4
      /\ r # n - 1 => (p + 1) % n = r + 1 /\ First(p + 1) = First(p)
  BY <1>3, <1>4, <1>5
<1> QED
  BY <1>1, <1>4, <1>5, <1>6 DEF n, r

\* The address of a stream that begins is that of its pixel's window.
LEMMA RepeaterAddr ==
  ASSUME TInv, Pixels1, Repeats1, Counts1, control.running, Configured1, control.cycle_counter < 4
  PROVE  F1!repeater_addr = PixelAddr(First(at1.pass) + control.cycle_counter)
<1> DEFINE p == at1.pass
           c == control.cycle_counter
<1>1. p \in Nat /\ c \in Ports
  BY SMT DEF TInv, Types1, Counts1, Ports
<1>2. repeater.group = c /\ repeater.repeat_count = p % F1!num_repeats
  BY Zenon DEF Repeats1
<1>3. CASE p % F1!num_repeats = 0
  <2>1. Ahead(p, c) = First(p) + c
    BY <1>3, Zenon DEF Ahead
  <2>2. pixel_ag1.addr = PixelAddr(First(p) + c)
    <3>1. PixelIs(Ahead(p, c))
      BY DEF Pixels1
    <3>2. pixel_ag1.addr = PixelAddr(Ahead(p, c))
      BY <3>1, Zenon DEF PixelIs
    <3> QED
      BY <2>1, <3>2, Zenon
  <2> QED
    BY <1>2, <1>3, <2>2, Zenon DEF F1!repeater_addr
<1>4. CASE p % F1!num_repeats # 0
  <2>1. repeater.mem[c] = PixelAddr(First(p) + c)
    BY <1>1, <1>4, Zenon DEF Repeats1
  <2> QED
    BY <1>2, <1>4, <2>1, Zenon DEF F1!repeater_addr
<1> QED
  BY <1>3, <1>4

\* The pixel generator is at the block of the pass, or ahead of it.
LEMMA Pixels1Step ==
  ASSUME TInv, Counts1, Repeats1, Pixels1, Next
  PROVE  Pixels1'
<1> SUFFICES ASSUME control'.running, Configured1'
             PROVE  PixelIs(Ahead(at1.pass, control.cycle_counter))'
  BY Zenon DEF Pixels1
<1> DEFINE p == at1.pass
           c == control.cycle_counter
           N == F1!num_repeats
<1>1. /\ Configured1 /\ UNCHANGED <<layer, config>>
      /\ \E start \in BOOLEAN :
           /\ F1!NextPixel(start)
           /\ start => at1'.pass = 0 /\ control'.cycle_counter = 0
           /\ ~start =>
                /\ control.running /\ c \in Nat /\ c < length
                /\ c = length - 1 => at1'.pass = p + 1 /\ control'.cycle_counter = 0
                /\ c # length - 1 => at1'.pass = p /\ control'.cycle_counter = c + 1
  BY Cycle1, Zenon
<1>2. PICK start \in BOOLEAN :
           /\ F1!NextPixel(start)
           /\ start => at1'.pass = 0 /\ control'.cycle_counter = 0
           /\ ~start =>
                /\ control.running /\ c \in Nat /\ c < length
                /\ c = length - 1 => at1'.pass = p + 1 /\ control'.cycle_counter = 0
                /\ c # length - 1 => at1'.pass = p /\ control'.cycle_counter = c + 1
  BY <1>1
<1>3. p \in Nat
  BY DEF TInv, Types1
<1>4. length \in Nat /\ length >= 64
  BY <1>1, SMT DEF length, Configured1
<1>5. ASSUME NEW g, Ahead(at1'.pass, control'.cycle_counter) = g,
             pixel_ag1' = [addr |-> PixelAddr(g), pixel_x |-> g % config.num_pixels_x,
                           row_begin |-> RowBegin(g)]
      PROVE  PixelIs(Ahead(at1.pass, control.cycle_counter))'
  <2>1. Ahead(at1.pass, control.cycle_counter)' = g
    BY <1>1, <1>5, Same1 DEF Ahead, First
  <2>2. PixelAddr(g)' = PixelAddr(g) /\ RowBegin(g)' = RowBegin(g)
    BY <1>1, Same1
  <2>3. pixel_ag1' = [addr |-> PixelAddr(g)', pixel_x |-> g % config'.num_pixels_x,
                      row_begin |-> RowBegin(g)']
    BY <1>1, <1>5, <2>2, Zenon
  <2> QED
    BY <2>1, <2>3 DEF PixelIs, PixelAddr, RowBegin, Block, F1!Address
<1>6. CASE start
  <2>1. pixel_ag1' = [addr |-> F1!base_addr, pixel_x |-> 0,
                      row_begin |-> F1!Address(F1!base_addr + config.pixel_advance_y)]
    BY <1>2, <1>6, Zenon DEF F1!NextPixel
  <2>2. F1!base_addr % 2^14 = F1!base_addr
    <3>1. config.base_addr \in Nat /\ config.base_addr < 2^18
      BY DEF TInv, ConfigOK, Configs, Bytes
    <3> QED
      BY <3>1, SMT DEF F1!base_addr
  <2> DEFINE w == config.num_pixels_x
             b == F1!base_addr
             ax == config.pixel_advance_x
             ay == config.pixel_advance_y
  <2>3. w \in Nat \ {0} /\ 0 \in 0 .. w - 1 /\ N \in Nat \ {0} /\ 0 \in 0 .. N - 1
        /\ b \in Nat /\ ax \in Nat /\ ay \in Nat
    BY <1>1, SMT DEF Configured1
  <2>4. 0 \div w = 0 /\ 0 % w = 0 /\ 0 \div N = 0 /\ 0 % N = 0
    BY <2>3, Remainder
  <2>5. First(0) = 4 * 0
    BY <2>4 DEF First
  <2>6. Ahead(0, 0) = 0
    <3>1. 0 < 4 /\ 4 * 0 + 0 = 0
      OBVIOUS
    <3>2. Ahead(0, 0) = First(0) + 0
      BY <2>4, <3>1, Zenon DEF Ahead
    <3> QED
      BY <2>5, <3>1, <3>2
  <2>7. PixelAddr(0) = F1!Address(b + (0 * ay + 0 * ax)) /\ RowBegin(0) = F1!Address(b + (0 + 1) * ay)
    BY <2>4 DEF PixelAddr, RowBegin, Block
  <2>8. PixelAddr(0) = b /\ RowBegin(0) = F1!Address(b + ay)
    <3> HIDE DEF b, ax, ay
    <3>1. b + (0 * ay + 0 * ax) = b /\ b + (0 + 1) * ay = b + ay
      BY <2>3, SMT
    <3> QED
      BY <2>2, <2>7, <3>1 DEF F1!Address, b
  <2>9. Ahead(at1'.pass, control'.cycle_counter) = 0
    BY <1>2, <1>6, <2>6
  <2>10. pixel_ag1' = [addr |-> PixelAddr(0), pixel_x |-> 0 % w, row_begin |-> RowBegin(0)]
    BY <2>1, <2>4, <2>8, Zenon
  <2> QED
    BY <1>5, <2>9, <2>10
<1>7. CASE ~start
  <2>1. /\ control.running /\ c \in Nat /\ c < length
        /\ c = length - 1 => at1'.pass = p + 1 /\ control'.cycle_counter = 0
        /\ c # length - 1 => at1'.pass = p /\ control'.cycle_counter = c + 1
    BY <1>2, <1>7
  <2> DEFINE g == Ahead(p, c)
             h == Ahead(at1'.pass, control'.cycle_counter)
  <2>2. PixelIs(g)
    BY <1>1, <2>1 DEF Pixels1
  <2>3. /\ p % N \in Nat /\ First(p) \in Nat /\ N \in Nat \ {0}
        /\ p % N = N - 1 => (p + 1) % N = 0 /\ First(p + 1) = First(p) + 4
        /\ p % N # N - 1 => (p + 1) % N = (p % N) + 1 /\ First(p + 1) = First(p)
    BY <1>1, <1>3, Blocks1
  <2>4. /\ g = IF p % N = 0 /\ c < 4 THEN First(p) + c ELSE First(p) + 4
        /\ Ahead(p, c + 1) = IF p % N = 0 /\ c + 1 < 4 THEN First(p) + (c + 1) ELSE First(p) + 4
        /\ Ahead(p + 1, 0) = IF (p + 1) % N = 0 /\ 0 < 4 THEN First(p + 1) + 0 ELSE First(p + 1) + 4
    BY DEF Ahead
  <2> DEFINE r == p % N
             f == First(p)
             takes == r = 0 /\ c < 4
  <2>5. g \in Nat
    BY <2>1, <2>3, <2>4, SMT
  <2>6. F1!gen_next <=> takes
    <3>1. F1!next_pixel <=> c < 4
      BY <2>1, SMT DEF F1!next_pixel, F1!start_gen, F1!Streams, F1!Ports
    <3>2. c < 4 => repeater.repeat_count = p % N
      BY <1>1, <2>1, Zenon DEF Repeats1
    <3> QED
      BY <3>1, <3>2 DEF F1!gen_next
  <2>7. h = IF takes THEN g + 1 ELSE g
    <3>1. CASE c = length - 1
      <4>1. h = Ahead(p + 1, 0) /\ ~(c < 4)
        BY <1>4, <2>1, <3>1, SMT
      <4>2. g = f + 4
        BY <2>4, <4>1, Zenon
      <4>3. Ahead(p + 1, 0) = f + 4
        <5>1. CASE r = N - 1
          <6>1. (p + 1) % N = 0 /\ First(p + 1) = f + 4
            BY <2>3, <5>1
          <6>2. 0 < 4 /\ f + 4 + 0 = f + 4
            BY <2>3, SMT
          <6> QED
            BY <2>4, <6>1, <6>2, Zenon
        <5>2. CASE r # N - 1
          <6>1. (p + 1) % N = r + 1 /\ First(p + 1) = f /\ r + 1 # 0
            BY <2>3, <5>2, SMT
          <6> QED
            BY <2>4, <6>1, Zenon
        <5> QED
          BY <5>1, <5>2
      <4> QED
        BY <4>1, <4>2, <4>3, Zenon
    <3>2. CASE c # length - 1
      <4>1. h = Ahead(p, c + 1)
        BY <2>1, <3>2
      <4> HIDE DEF h, g
      <4>2. CASE takes
        <5>1. g = f + c
          BY <2>4, <4>2, Zenon
        <5>2. Ahead(p, c + 1) = f + (c + 1)
          BY <2>1, <2>3, <2>4, <4>2, SMT
        <5>3. f + (c + 1) = f + c + 1
          BY <2>1, <2>3, SMT
        <5> QED
          BY <4>1, <4>2, <5>1, <5>2, <5>3, Zenon
      <4>3. CASE ~takes
        <5>1. g = f + 4
          BY <2>4, <4>3, Zenon
        <5>2. ~(c + 1 < 4 /\ r = 0)
          BY <2>1, <4>3, SMT
        <5>3. Ahead(p, c + 1) = f + 4
          BY <2>4, <5>2, Zenon
        <5> QED
          BY <4>1, <4>3, <5>1, <5>3, Zenon
      <4> QED
        BY <4>2, <4>3
    <3> QED
      BY <3>1, <3>2
  <2> HIDE DEF g, h, takes
  <2>8. CASE ~takes
    <3>1. pixel_ag1' = pixel_ag1
      BY <1>2, <1>7, <2>6, <2>8, Zenon DEF F1!NextPixel
    <3>2. h = g
      BY <2>7, <2>8
    <3> QED
      BY <1>5, <2>2, <3>1, <3>2 DEF PixelIs, h
  <2>9. CASE takes
    <3>1. /\ pixel_ag1.addr = PixelAddr(g) /\ pixel_ag1.pixel_x = g % config.num_pixels_x
          /\ pixel_ag1.row_begin = RowBegin(g)
      BY <2>2, Zenon DEF PixelIs
    <3>2. h = g + 1
      BY <2>7, <2>9
    <3> DEFINE w == config.num_pixels_x
               x == g % w
    <3>3. w \in 1 .. 2^9 - 1 /\ x \in 0 .. w - 1
      <4>1. w \in 1 .. 2^9 - 1
        BY <1>1 DEF Configured1
      <4> QED
        BY <1>1, <2>5, <4>1, Types1Blocks
    <3>4. CASE x = w - 1
      <4>1. x + 1 = w
        BY <3>3, <3>4, SMT
      <4>2. pixel_ag1' = [addr |-> pixel_ag1.row_begin, pixel_x |-> 0,
                          row_begin |-> F1!Address(pixel_ag1.row_begin + config.pixel_advance_y)]
        BY <1>2, <1>7, <2>6, <2>9, <3>1, <4>1, Zenon DEF F1!NextPixel
      <4>3. /\ PixelAddr(g + 1) = RowBegin(g)
            /\ RowBegin(g + 1) = F1!Address(RowBegin(g) + config.pixel_advance_y)
            /\ (g + 1) % w = 0
        BY <1>1, <2>5, <3>4, NextBlock
      <4>4. pixel_ag1' = [addr |-> PixelAddr(g + 1), pixel_x |-> (g + 1) % w, row_begin |-> RowBegin(g + 1)]
        BY <3>1, <4>2, <4>3, Zenon
      <4> QED
        BY <1>5, <3>2, <4>4 DEF h
    <3>5. CASE x # w - 1
      <4>1. x + 1 # w /\ (x + 1) % 2^9 = x + 1
        BY <3>3, <3>5, SMT
      <4>2. pixel_ag1' = [pixel_ag1 EXCEPT !.addr = F1!Address(@ + config.pixel_advance_x),
                                           !.pixel_x = (@ + 1) % 2^9]
        BY <1>2, <1>7, <2>6, <2>9, <3>1, <4>1, Zenon DEF F1!NextPixel
      <4>3. pixel_ag1' = [addr |-> F1!Address(pixel_ag1.addr + config.pixel_advance_x),
                          pixel_x |-> (pixel_ag1.pixel_x + 1) % 2^9, row_begin |-> pixel_ag1.row_begin]
        BY <4>2, Zenon DEF TInv, Types1
      <4>4. /\ PixelAddr(g + 1) = F1!Address(PixelAddr(g) + config.pixel_advance_x)
            /\ RowBegin(g + 1) = RowBegin(g)
            /\ (g + 1) % w = x + 1
        BY <1>1, <2>5, <3>5, NextBlock
      <4>5. pixel_ag1' = [addr |-> PixelAddr(g + 1), pixel_x |-> (g + 1) % w, row_begin |-> RowBegin(g + 1)]
        BY <3>1, <4>1, <4>3, <4>4, Zenon
      <4> QED
        BY <1>5, <3>2, <4>5 DEF h
    <3> QED
      BY <3>4, <3>5
  <2> QED
    BY <2>8, <2>9
<1> QED
  BY <1>6, <1>7

\* The repeater holds the addresses of the block, and counts its passes.
LEMMA Repeats1Step ==
  ASSUME TInv, Counts1, Pixels1, Repeats1, Next
  PROVE  Repeats1'
<1> SUFFICES ASSUME control'.running, Configured1' PROVE Repeats1'
  BY Zenon DEF Repeats1
<1> DEFINE p == at1.pass
           c == control.cycle_counter
           N == F1!num_repeats
           q == at1'.pass
           k == control'.cycle_counter
<1>1. PICK start \in BOOLEAN :
        /\ Configured1 /\ UNCHANGED <<layer, config>> /\ F1!Repeat(start)
        /\ start => q = 0 /\ k = 0
        /\ ~start =>
             /\ control.running /\ c \in Nat /\ c < length
             /\ c = length - 1 => q = p + 1 /\ k = 0
             /\ c # length - 1 => q = p /\ k = c + 1
  BY Cycle1, Zenon
<1>2. p \in Nat /\ repeater.mem \in [Ports -> Blocks]
  BY DEF TInv, Types1
<1>3. length \in Nat /\ length >= 64
  BY <1>1, SMT DEF length, Configured1
<1> DEFINE group == IF start THEN 0 ELSE IF F1!next_pixel THEN (repeater.group + 1) % 4
                    ELSE repeater.group
           repeat == IF start THEN 0
                     ELSE IF F1!next_pixel /\ F1!group_ends THEN F1!next_repeat
                     ELSE repeater.repeat_count
           mem == IF F1!gen_next THEN [repeater.mem EXCEPT ![repeater.group] = pixel_ag1.addr]
                  ELSE repeater.mem
<1>4. repeater'.group = group /\ repeater'.repeat_count = repeat /\ repeater'.mem = mem
  BY <1>1 DEF F1!Repeat
<1>5. SUFFICES /\ group = IF k < 4 THEN k ELSE 0
               /\ repeat = IF k < 4 THEN q % N ELSE (q + 1) % N
               /\ \A i \in Ports : q % N # 0 \/ i < k => mem[i] = PixelAddr(First(q) + i)
  <2> HIDE DEF group, repeat, mem
  <2>1. N' = N /\ F1!base_addr' = F1!base_addr /\ config' = config
    BY <1>1, Same1
  <2>2. First(at1.pass)' = First(q)
    BY <2>1, Zenon DEF First
  <2>3. ASSUME NEW i PROVE PixelAddr(First(at1.pass) + i)' = PixelAddr(First(q) + i)
    BY <2>1, <2>2, Zenon DEF PixelAddr, Block, F1!Address
  <2> QED
    BY <1>4, <1>5, <2>1, <2>3 DEF Repeats1
<1>6. CASE start
  <2>1. group = 0 /\ repeat = 0
    BY <1>6, Zenon
  <2>2. N \in Nat \ {0} /\ 0 \in 0 .. N - 1
    BY <1>1, SMT DEF Configured1
  <2>3. 0 % N = 0
    BY <2>2, Remainder
  <2>4. q = 0 /\ k = 0
    BY <1>1, <1>6
  <2>5. ASSUME NEW i \in Ports PROVE ~(i < 0)
    BY SMT DEF Ports
  <2>6. 0 < 4
    OBVIOUS
  <2> HIDE DEF group, repeat, mem, q, k
  <2> QED
    BY <2>1, <2>3, <2>4, <2>5, <2>6, Zenon
<1>7. CASE ~start
  <2>1. /\ control.running /\ c \in Nat /\ c < length
        /\ c = length - 1 => q = p + 1 /\ k = 0
        /\ c # length - 1 => q = p /\ k = c + 1
    BY <1>1, <1>7
  <2>2. /\ repeater.group = IF c < 4 THEN c ELSE 0
        /\ repeater.repeat_count = IF c < 4 THEN p % N ELSE (p + 1) % N
        /\ \A i \in Ports : p % N # 0 \/ i < c => repeater.mem[i] = PixelAddr(First(p) + i)
    BY <1>1, <2>1, Zenon DEF Repeats1
  <2>3. /\ p % N \in Nat /\ p % N < N /\ First(p) \in Nat /\ N \in Nat \ {0} /\ N <= 127
        /\ p % N = N - 1 => (p + 1) % N = 0 /\ First(p + 1) = First(p) + 4
        /\ p % N # N - 1 => (p + 1) % N = (p % N) + 1 /\ First(p + 1) = First(p)
    BY <1>1, <1>2, Blocks1
  <2>4. F1!next_pixel <=> c < 4
    BY <2>1, SMT DEF F1!next_pixel, F1!start_gen, F1!Streams, F1!Ports
  <2>5. CASE c < 4
    <3>1. repeater.group = c /\ repeater.repeat_count = p % N /\ c \in Ports /\ q = p /\ k = c + 1
      <4>1. c \in Ports /\ c # length - 1
        BY <1>3, <2>1, <2>5, SMT DEF Ports
      <4> QED
        BY <2>1, <2>2, <2>5, <4>1, Zenon
    <3>2. group = (c + 1) % 4
      BY <1>7, <2>4, <2>5, <3>1, Zenon
    <3>3. (c + 1) % 4 = (IF c + 1 < 4 THEN c + 1 ELSE 0) /\ (c = 3 <=> ~(c + 1 < 4))
      BY <2>1, <2>5, SMT
    <3>4. F1!next_repeat = (p + 1) % N
      <4>1. CASE p % N = N - 1
        <5>1. (p % N) + 1 = N
          BY <2>3, <4>1, SMT
        <5> QED
          BY <2>3, <3>1, <4>1, <5>1, Zenon DEF F1!next_repeat
      <4>2. CASE p % N # N - 1
        <5>1. (p % N) + 1 # N /\ ((p % N) + 1) % 2^7 = (p % N) + 1
          BY <2>3, <4>2, SMT
        <5>2. F1!next_repeat = ((p % N) + 1) % 2^7
          BY <3>1, <5>1, Zenon DEF F1!next_repeat
        <5> QED
          BY <2>3, <4>2, <5>1, <5>2
      <4> QED
        BY <4>1, <4>2
    <3>5. repeat = IF c + 1 < 4 THEN p % N ELSE (p + 1) % N
      <4>1. repeat = IF c = 3 THEN F1!next_repeat ELSE p % N
        BY <1>7, <2>4, <2>5, <3>1, Zenon DEF F1!group_ends
      <4> HIDE DEF repeat
      <4> QED
        BY <3>3, <3>4, <4>1, Zenon
    <3>6. ASSUME NEW i \in Ports, p % N # 0 \/ i < c + 1
          PROVE  mem[i] = PixelAddr(First(p) + i)
      <4>1. CASE p % N = 0
        <5>1. F1!gen_next /\ mem = [repeater.mem EXCEPT ![c] = pixel_ag1.addr]
          BY <2>4, <2>5, <3>1, <4>1, Zenon DEF F1!gen_next
        <5>2. i = c \/ (i # c /\ i < c)
          BY <2>1, <3>6, <4>1, SMT DEF Ports
        <5> HIDE DEF mem
        <5>3. CASE i = c
          <6>1. pixel_ag1.addr = PixelAddr(First(p) + c)
            <7>1. Ahead(p, c) = First(p) + c
              BY <2>5, <4>1, Zenon DEF Ahead
            <7>2. PixelIs(Ahead(p, c))
              BY <1>1, <2>1, Zenon DEF Pixels1
            <7>3. pixel_ag1.addr = PixelAddr(Ahead(p, c))
              BY <7>2, Zenon DEF PixelIs
            <7> QED
              BY <7>1, <7>3, Zenon
          <6>2. mem[c] = pixel_ag1.addr
            BY <1>2, <3>1, <5>1, Zenon
          <6> QED
            BY <5>3, <6>1, <6>2, Zenon
        <5>4. CASE i # c /\ i < c
          <6>1. mem[i] = repeater.mem[i]
            BY <1>2, <5>1, <5>4, Zenon
          <6> QED
            BY <2>2, <5>4, <6>1, Zenon
        <5> QED
          BY <5>2, <5>3, <5>4
      <4>2. CASE p % N # 0
        <5>1. mem = repeater.mem
          BY <3>1, <4>2, Zenon DEF F1!gen_next
        <5> HIDE DEF mem
        <5> QED
          BY <2>2, <4>2, <5>1, Zenon
      <4> QED
        BY <4>1, <4>2
    <3> HIDE DEF group, repeat, mem, q, k
    <3> QED
      BY <3>1, <3>2, <3>3, <3>5, <3>6, Zenon
  <2>6. CASE ~(c < 4)
    <3>1. group = 0 /\ repeat = (p + 1) % N /\ mem = repeater.mem
      BY <1>7, <2>2, <2>4, <2>6, Zenon DEF F1!gen_next
    <3> HIDE DEF group, repeat, mem
    <3>2. ASSUME NEW i \in Ports PROVE mem[i] = PixelAddr(First(p) + i)
      <4>1. i < c
        BY <2>1, <2>6, SMT DEF Ports
      <4> QED
        BY <2>2, <3>1, <4>1, Zenon
    <3>3. CASE c = length - 1
      <4>1. q = p + 1 /\ k = 0 /\ 0 < 4
        BY <2>1, <3>3
      <4>2. ASSUME NEW i \in Ports, (p + 1) % N # 0 \/ i < 0
            PROVE  mem[i] = PixelAddr(First(p + 1) + i)
        <5>1. (p + 1) % N # 0
          BY <4>2, SMT DEF Ports
        <5>2. First(p + 1) = First(p)
          BY <2>3, <5>1
        <5> QED
          BY <3>2, <5>2
      <4> HIDE DEF q, k
      <4> QED
        BY <3>1, <4>1, <4>2, Zenon
    <3>4. CASE c # length - 1
      <4>1. q = p /\ k = c + 1 /\ ~(c + 1 < 4)
        BY <2>1, <2>6, <3>4, SMT
      <4> HIDE DEF q, k
      <4> QED
        BY <3>1, <3>2, <4>1, Zenon
    <3> QED
      BY <3>3, <3>4
  <2> QED
    BY <2>5, <2>6
<1> QED
  BY <1>6, <1>7

\* A generator goes on to the next word.
LEMMA NextValueIs ==
  ASSUME TInv, Configured1, NEW i \in Ports, NEW g \in Nat, NEW n \in Nat, ValueIs(i, g, n),
         ~F1!start_gen(i)
  PROVE  F1!NextValue(i) = [addr |-> WordAddr(g, n + 1), x_count |-> (n + 1) % F1!x_size,
                            next_row |-> NextRow(g, n + 1)]
<1> DEFINE s == F1!x_size
           m == n % s
           v == value_ags[i]
<1>1. /\ m \in Nat /\ m < s
      /\ m = s - 1 =>
           /\ (n + 1) % s = 0
           /\ WordAddr(g, n + 1) = NextRow(g, n)
           /\ NextRow(g, n + 1) = F1!Address(NextRow(g, n) + config.pixel_advance_y)
      /\ m # s - 1 =>
           /\ (n + 1) % s = m + 1
           /\ NextRow(g, n + 1) = NextRow(g, n)
           /\ WordAddr(g, n + 1) = IF m % 4 = 3 THEN F1!Address(WordAddr(g, n) + 1)
                                   ELSE WordAddr(g, n)
  BY NextWord
<1>2. v.addr = WordAddr(g, n) /\ v.x_count = m /\ v.next_row = NextRow(g, n)
  <2>1. v = [addr |-> WordAddr(g, n), x_count |-> m, next_row |-> NextRow(g, n)]
    BY DEF ValueIs
  <2> HIDE DEF v, m
  <2> QED
    BY <2>1
<1>3. v \in [addr : Blocks, x_count : 0 .. 2^7 - 1, next_row : Blocks]
  BY DEF TInv, Types1
<1>4. CASE m = s - 1
  <2>1. F1!NextValue(i) = [addr |-> v.next_row, x_count |-> 0,
                           next_row |-> F1!Address(v.next_row + config.pixel_advance_y)]
    BY <1>2, <1>4, Zenon DEF F1!NextValue
  <2> QED
    BY <1>1, <1>2, <1>4, <2>1, Zenon
<1>5. CASE m # s - 1
  <2> DEFINE a == IF v.x_count % 4 = 3 THEN F1!Address(v.addr + 1) ELSE v.addr
  <2>1. F1!NextValue(i) = [v EXCEPT !.x_count = (@ + 1) % 2^7,
                              !.addr = IF v.x_count % 4 = 3 THEN F1!Address(@ + 1) ELSE @]
    BY <1>2, <1>5, Zenon DEF F1!NextValue
  <2>2. F1!NextValue(i) = [addr |-> a, x_count |-> (v.x_count + 1) % 2^7, next_row |-> v.next_row]
    BY <1>3, <2>1, SecondThenFirst, Zenon
  <2>3. (m + 1) % 2^7 = m + 1
    <3>1. s \in Nat /\ s <= 64 /\ m \in Nat /\ m < s
      BY <1>1, SMT DEF Configured1
    <3> HIDE DEF m, s
    <3> QED
      BY <3>1, SMT
  <2>4. a = WordAddr(g, n + 1)
    BY <1>1, <1>2, <1>5, Zenon
  <2> HIDE DEF a, s, m, v
  <2>5. F1!NextValue(i) = [addr |-> WordAddr(g, n + 1), x_count |-> (n + 1) % s, next_row |-> NextRow(g, n + 1)]
    BY <1>1, <1>2, <1>5, <2>2, <2>3, <2>4
  <2> QED
    BY <2>5 DEF s
<1> QED
  BY <1>4, <1>5

\* A generator begins with the first word.
LEMMA FirstValueIs ==
  ASSUME TInv, Configured1, NEW i \in Ports, NEW g \in Nat, F1!start_gen(i), F1!repeater_addr = PixelAddr(g)
  PROVE  F1!NextValue(i) = [addr |-> WordAddr(g, 1), x_count |-> 1 % F1!x_size, next_row |-> NextRow(g, 1)]
<1>1. F1!NextValue(i) = [addr |-> PixelAddr(g), x_count |-> 1,
                         next_row |-> F1!Address(PixelAddr(g) + config.pixel_advance_y)]
  BY Zenon DEF F1!NextValue
<1> QED
  BY <1>1, Words

\* Each stream is as far in its window as it began later than the first.
LEMMA Values1Step ==
  ASSUME TInv, Counts1, Pixels1, Repeats1, Values1, Next
  PROVE  Values1'
<1> SUFFICES ASSUME control'.running, Configured1' PROVE Values1'
  BY Zenon DEF Values1
<1> DEFINE p == at1.pass
           c == control.cycle_counter
           q == at1'.pass
           k == control'.cycle_counter
<1>1. PICK start \in BOOLEAN :
        /\ Configured1 /\ UNCHANGED <<layer, config>>
        /\ value_ags' = [i \in Ports |-> F1!NextValue(i)]
        /\ start => q = 0 /\ k = 0
        /\ ~start =>
             /\ control.running /\ c \in Nat /\ c < length
             /\ c = length - 1 => q = p + 1 /\ k = 0
             /\ c # length - 1 => q = p /\ k = c + 1
  BY Cycle1, Zenon
<1>2. p \in Nat
  BY DEF TInv, Types1
<1>3. length \in Nat /\ length >= 64
  BY <1>1, SMT DEF length, Configured1
<1> DEFINE Is(i, g, n) == F1!NextValue(i) = [addr |-> WordAddr(g, n), x_count |-> n % F1!x_size,
                                             next_row |-> NextRow(g, n)]
<1>4. SUFFICES ASSUME NEW i \in Ports
               PROVE  /\ i < k => Is(i, First(q) + i, k - i)
                      /\ k < i /\ q >= 1 => Is(i, First(q - 1) + i, length + k - i)
  <2>1. /\ length' = length /\ F1!x_size' = F1!x_size /\ F1!base_addr' = F1!base_addr /\ config' = config
        /\ F1!num_repeats' = F1!num_repeats
    BY <1>1, Same1
  <2>2. First(at1.pass)' = First(q) /\ First(at1.pass - 1)' = First(q - 1)
    BY <2>1, Zenon DEF First
  <2>3. ASSUME NEW i \in Ports, NEW g, NEW n, Is(i, g, n)
        PROVE  value_ags'[i] = [addr |-> WordAddr(g, n), x_count |-> n % F1!x_size,
                                next_row |-> NextRow(g, n)]
    BY <1>1, <2>3
  <2>4. ASSUME NEW i \in Ports, i < k
        PROVE  ValueIs(i, First(at1.pass) + i, control.cycle_counter - i)'
    <3> DEFINE g == First(q) + i
               n == k - i
    <3>1. value_ags'[i] = [addr |-> WordAddr(g, n), x_count |-> n % F1!x_size, next_row |-> NextRow(g, n)]
      BY <1>4, <2>3, <2>4
    <3>2. WordAddr(First(at1.pass) + i, control.cycle_counter - i)' = WordAddr(g, n)
      BY <2>1, <2>2, Zenon DEF WordAddr, Block, F1!Address
    <3>3. NextRow(First(at1.pass) + i, control.cycle_counter - i)' = NextRow(g, n)
      BY <2>1, <2>2, Zenon DEF NextRow, Block, F1!Address
    <3> QED
      BY <2>1, <3>1, <3>2, <3>3, Zenon DEF ValueIs
  <2>5. ASSUME NEW i \in Ports, k < i, q >= 1
        PROVE  ValueIs(i, First(at1.pass - 1) + i, length + control.cycle_counter - i)'
    <3> DEFINE g == First(q - 1) + i
               n == length + k - i
    <3>1. value_ags'[i] = [addr |-> WordAddr(g, n), x_count |-> n % F1!x_size, next_row |-> NextRow(g, n)]
      BY <1>4, <2>3, <2>5
    <3>2. WordAddr(First(at1.pass - 1) + i, length + control.cycle_counter - i)' = WordAddr(g, n)
      BY <2>1, <2>2, Zenon DEF WordAddr, Block, F1!Address
    <3>3. NextRow(First(at1.pass - 1) + i, length + control.cycle_counter - i)' = NextRow(g, n)
      BY <2>1, <2>2, Zenon DEF NextRow, Block, F1!Address
    <3> QED
      BY <2>1, <3>1, <3>2, <3>3, Zenon DEF ValueIs
  <2>6. \A i \in Ports : i < k => ValueIs(i, First(at1.pass) + i, control.cycle_counter - i)'
    BY <2>4
  <2>7. \A i \in Ports : k < i /\ q >= 1 =>
          ValueIs(i, First(at1.pass - 1) + i, length + control.cycle_counter - i)'
    BY <2>5
  <2> QED
    BY <2>6, <2>7, Zenon DEF Values1
<1>5. i \in Nat /\ i < 4
  BY SMT DEF Ports
<1>6. CASE start
  <2>1. q = 0 /\ k = 0
    BY <1>1, <1>6
  <2> HIDE DEF q, k
  <2>2. ~(i < k) /\ ~(q >= 1)
    BY <1>5, <2>1, SMT
  <2> QED
    BY <2>2
<1>7. CASE ~start
  <2>1. /\ control.running /\ c \in Nat /\ c < length
        /\ c = length - 1 => q = p + 1 /\ k = 0
        /\ c # length - 1 => q = p /\ k = c + 1
    BY <1>1, <1>7
  <2>2. /\ i < c => ValueIs(i, First(p) + i, c - i)
        /\ c < i /\ p >= 1 => ValueIs(i, First(p - 1) + i, length + c - i)
    BY <1>1, <2>1, Zenon DEF Values1
  <2>3. First(p) \in Nat /\ (p >= 1 => First(p - 1) \in Nat)
    <3>1. First(p) \in Nat
      BY <1>1, <1>2, Blocks1
    <3>2. ASSUME p >= 1 PROVE First(p - 1) \in Nat
      <4>1. p - 1 \in Nat
        BY <1>2, <3>2, SMT
      <4> QED
        BY <1>1, <4>1, Blocks1
    <3> QED
      BY <3>1, <3>2
  <2>4. F1!start_gen(i) <=> c = i
    BY <2>1 DEF F1!start_gen
  <2> HIDE DEF Is
  <2>5. CASE c = i
    <3>1. F1!repeater_addr = PixelAddr(First(p) + c)
      BY <1>1, <1>5, <2>1, <2>5, RepeaterAddr
    <3>2. First(p) + i \in Nat
      BY <1>5, <2>3, SMT
    <3>3. Is(i, First(p) + i, 1)
      BY <1>1, <2>4, <2>5, <3>1, <3>2, FirstValueIs DEF Is
    <3>4. q = p /\ k = i + 1
      <4>1. c # length - 1
        BY <1>3, <1>5, <2>5, SMT
      <4> QED
        BY <2>1, <2>5, <4>1
    <3> HIDE DEF q, k
    <3>5. k - i = 1 /\ ~(k < i)
      BY <1>5, <3>4, SMT
    <3> QED
      BY <3>3, <3>4, <3>5
  <2>6. CASE i < c
    <3>1. First(p) + i \in Nat /\ c - i \in Nat /\ c # i
      BY <1>5, <2>1, <2>3, <2>6, SMT
    <3>2. Is(i, First(p) + i, c - i + 1)
      BY <1>1, <2>2, <2>4, <2>6, <3>1, NextValueIs DEF Is
    <3>3. CASE c = length - 1
      <4>1. q = p + 1 /\ k = 0
        BY <2>1, <3>3
      <4> HIDE DEF q, k
      <4>2. ~(i < k) /\ q - 1 = p /\ length + k - i = c - i + 1
        BY <1>2, <1>3, <1>5, <3>3, <4>1, SMT
      <4> QED
        BY <3>2, <4>2
    <3>4. CASE c # length - 1
      <4>1. q = p /\ k = c + 1
        BY <2>1, <3>4
      <4> HIDE DEF q, k
      <4>2. k - i = c - i + 1 /\ ~(k < i)
        BY <1>5, <2>1, <2>6, <4>1, SMT
      <4> QED
        BY <3>2, <4>1, <4>2
    <3> QED
      BY <3>3, <3>4
  <2>7. CASE c < i
    <3>1. q = p /\ k = c + 1
      <4>1. c # length - 1
        BY <1>3, <1>5, <2>1, <2>7, SMT
      <4> QED
        BY <2>1, <4>1
    <3> HIDE DEF q, k
    <3>2. ~(i < k)
      BY <1>5, <2>1, <2>7, <3>1, SMT
    <3>3. ASSUME p >= 1 PROVE Is(i, First(p - 1) + i, length + k - i)
      <4>1. First(p - 1) + i \in Nat /\ length + c - i \in Nat /\ c # i /\ length + k - i = length + c - i + 1
        BY <1>3, <1>5, <2>1, <2>3, <2>7, <3>1, <3>3, SMT
      <4>2. Is(i, First(p - 1) + i, length + c - i + 1)
        BY <1>1, <2>2, <2>4, <2>7, <3>3, <4>1, NextValueIs DEF Is
      <4> QED
        BY <4>1, <4>2
    <3> QED
      BY <3>1, <3>2, <3>3
  <2> QED
    BY <1>5, <2>1, <2>5, <2>6, <2>7, SMT
<1> QED
  BY <1>6, <1>7

-----------------------------------------------------------------------------
(* The other layers: the words that arrive.                                *)

\* The address that a stream reads in this cycle of this pass.
Read(p, c, i) ==
  IF i <= c THEN WordAddr(First(p) + i, c - i)
  ELSE WordAddr(First(p - 1) + i, length + c - i)

\* The RAMs were given the addresses of the streams that are under way.
Data1 ==
  Configured1 /\ at1.now # None =>
    LET p == at1.now.pass
        c == at1.now.count
    IN  /\ p \in Nat /\ c \in Nat /\ c < length
        /\ ram.phase = c % 4
        /\ \A i \in Ports : i <= c \/ p >= 1 => ram.addr[Partner(ram.phase, i)] = Read(p, c, i)

\* The address that a stream gives is that of the word it is at.
LEMMA AddrOut1 ==
  ASSUME TInv, Counts1, Pixels1, Repeats1, Values1, control.running, Configured1, NEW i \in Ports,
         i <= control.cycle_counter \/ at1.pass >= 1
  PROVE  F1!addr_out(i) = Read(at1.pass, control.cycle_counter, i)
<1> DEFINE p == at1.pass
           c == control.cycle_counter
<1>1. p \in Nat /\ c \in Nat /\ c < length /\ i \in Nat /\ i < 4
  BY SMT DEF TInv, Types1, Counts1, Ports
<1>2. First(p) \in Nat
  BY <1>1, Blocks1
<1>3. F1!start_gen(i) <=> c = i
  BY DEF F1!start_gen
<1>4. CASE c = i
  <2>1. F1!addr_out(i) = F1!repeater_addr
    BY <1>3, <1>4, Zenon DEF F1!addr_out
  <2>2. F1!repeater_addr = PixelAddr(First(p) + i)
    BY <1>1, <1>4, RepeaterAddr
  <2>3. First(p) + i \in Nat /\ c - i = 0 /\ i <= c
    BY <1>1, <1>2, <1>4, SMT
  <2>4. WordAddr(First(p) + i, 0) = PixelAddr(First(p) + i)
    BY <2>3, Words
  <2> QED
    BY <2>1, <2>2, <2>3, <2>4, Zenon DEF Read
<1>5. CASE c # i
  <2>1. F1!addr_out(i) = value_ags[i].addr
    BY <1>3, <1>5, Zenon DEF F1!addr_out
  <2>2. /\ i < c => ValueIs(i, First(p) + i, c - i)
        /\ c < i /\ p >= 1 => ValueIs(i, First(p - 1) + i, length + c - i)
    BY Zenon DEF Values1
  <2>3. ASSUME NEW g, NEW n, ValueIs(i, g, n) PROVE value_ags[i].addr = WordAddr(g, n)
    BY <2>3 DEF ValueIs
  <2>4. CASE i < c
    <3>1. i <= c
      BY <1>1, <2>4, SMT
    <3> QED
      BY <2>1, <2>2, <2>3, <2>4, <3>1, Zenon DEF Read
  <2>5. CASE c < i
    <3>1. ~(i <= c)
      BY <1>1, <2>5, SMT
    <3> QED
      BY <2>1, <2>2, <2>3, <2>5, <3>1, Zenon DEF Read
  <2> QED
    BY <1>1, <1>5, <2>4, <2>5, SMT
<1> QED
  BY <1>4, <1>5

\* What the streams give to the RAMs arrives in the next cycle.
LEMMA Data1Step ==
  ASSUME TInv, Counts1, Pixels1, Repeats1, Values1, Next
  PROVE  Data1'
<1>1. PICK start \in BOOLEAN, reset \in BOOLEAN :
        /\ Clocked(start, reset)
        /\ UNCHANGED <<layer, config>> \/ ~control.running
  BY Steps, Zenon
<1> SUFFICES ASSUME Configured1', at1'.now # None PROVE Data1'
  BY Zenon DEF Data1
<1> DEFINE p == at1.pass
           c == control.cycle_counter
<1>2. F1!Clocked(start, reset) /\ Multiplex(routed_ports)
  BY <1>1 DEF Clocked
<1>3. control.running /\ at1'.now = [pass |-> p, count |-> c]
  <2>1. at1'.now = IF control.running THEN [pass |-> p, count |-> c] ELSE None
    BY <1>2 DEF F1!Clocked
  <2> QED
    BY <2>1, Zenon
<1>4. Configured1 /\ UNCHANGED <<layer, config>>
  BY <1>1, <1>3, Same1
<1>5. p \in Nat /\ c \in Nat /\ c < length
  BY <1>3, <1>4 DEF TInv, Types1, Counts1
<1>6. routed_ports = F1!ports
  <2>1. config.mode = 1
    BY <1>4 DEF Configured1
  <2> QED
    BY <2>1, Zenon DEF routed_ports
<1>7. /\ ram'.phase = F1!ports.phase
      /\ \A i \in Ports : ram'.addr[Partner(F1!ports.phase, i)] = F1!ports.addr[i]
  BY <1>2, <1>6, Ports1, Arrives DEF TInv
<1>8. F1!ports.phase = c % 4 /\ \A i \in Ports : F1!ports.addr[i] = F1!addr_out(i)
  BY DEF F1!ports, F1!Streams, F1!Ports, Ports
<1>9. /\ length' = length /\ F1!num_repeats' = F1!num_repeats /\ F1!x_size' = F1!x_size
      /\ F1!base_addr' = F1!base_addr /\ config' = config
  BY <1>4, Same1
<1>10. at1'.now.pass = p /\ at1'.now.count = c
  BY <1>3
<1>11. ASSUME NEW i \in Ports, i <= c \/ p >= 1
       PROVE  ram'.addr[Partner(ram'.phase, i)] = Read(p, c, i)
  <2>1. F1!addr_out(i) = Read(p, c, i)
    BY <1>3, <1>4, <1>11, AddrOut1
  <2> QED
    BY <1>7, <1>8, <2>1
<1>12. ASSUME NEW i \in Ports
       PROVE  Read(at1.now.pass, at1.now.count, i)' = Read(p, c, i)
  <2>1. /\ First(at1.now.pass)' = First(p) /\ First(at1.now.pass - 1)' = First(p - 1)
    BY <1>9, <1>10, Zenon DEF First
  <2>2. /\ WordAddr(First(at1.now.pass) + i, at1.now.count - i)' = WordAddr(First(p) + i, c - i)
        /\ WordAddr(First(at1.now.pass - 1) + i, length + at1.now.count - i)'
             = WordAddr(First(p - 1) + i, length + c - i)
    BY <1>9, <1>10, <2>1, Zenon DEF WordAddr, Block, F1!Address
  <2> QED
    BY <1>10, <2>2, Zenon DEF Read
<1>13. \A i \in Ports : i <= c \/ p >= 1 =>
         ram'.addr[Partner(ram.phase, i)'] = Read(at1.now.pass, at1.now.count, i)'
  BY <1>11, <1>12, Zenon DEF Partner
<1> HIDE DEF p, c
<1> QED
  BY <1>5, <1>7, <1>8, <1>9, <1>10, <1>13, Zenon DEF Data1

\* The word of a window that the property speaks of.
LEMMA WindowWord ==
  ASSUME Configured1, NEW g \in Nat, NEW n \in Nat, n < length
  PROVE  F1!Window(layer.width, g, n) = <<n % 4, WordAddr(g, n)>>
<1> DEFINE s == F1!x_size
           w == config.num_pixels_x
           y == g \div w
           x == g % w
           e == n \div s
           m == n % s
           d == F1!depth
           b == F1!base_addr
           width == layer.width
           ay == config.pixel_advance_y
           ax == config.pixel_advance_x
<1>1. /\ w \in Nat \ {0} /\ d \in 1 .. 4 /\ b \in Nat /\ width = w + 3 /\ s = 16 * d
      /\ ay = d * width /\ ax = d
  BY SMT DEF Configured1
<1>2. width - 3 = w
  BY <1>1, SMT
<1>3. y \in Nat /\ x \in Nat
  <2>1. y \in Nat /\ x \in 0 .. w - 1
    BY <1>1, Division
  <2> QED
    BY <1>1, <2>1, SMT
<1>4. e \in Nat /\ m \in 0 .. s - 1 /\ n = s * e + m
  <2>1. s \in Nat \ {0}
    BY <1>1, SMT
  <2> QED
    BY <2>1, Division
<1>5. F1!Window(width, g, n) = <<m % 4, F1!Address(b + ((y + e) * width + x) * d + m \div 4)>>
  <2>1. F1!Window(width, g, n)
          = <<m % 4, F1!Address(b + ((g \div (width - 3) + e) * width + (g % (width - 3))) * d + m \div 4)>>
    BY DEF F1!Window
  <2> QED
    BY <1>2, <2>1
<1>6. WordAddr(g, n) = F1!Address(b + (y * ay + x * ax) + e * ay + m \div 4)
  BY DEF WordAddr, Block
<1> HIDE DEF s, w, y, x, e, m, d, b, width, ay, ax
<1>7. m % 4 = n % 4
  <2>1. n = 4 * (4 * (d * e)) + m /\ d * e \in Nat /\ m \in Nat
    BY <1>1, <1>4, SMT
  <2> QED
    BY <2>1, SMT
<1>8. b + ((y + e) * width + x) * d + m \div 4 = b + (y * ay + x * ax) + e * ay + m \div 4
  <2>1. y * ay = y * (d * width) /\ e * ay = e * (d * width) /\ x * ax = x * d /\ width \in Nat
    BY <1>1, SMT
  <2>2. ((y + e) * width + x) * d = y * (d * width) + e * (d * width) + x * d
    BY <1>1, <1>3, <1>4, <2>1, SMT
  <2>3. /\ y * (d * width) \in Nat /\ e * (d * width) \in Nat /\ x * d \in Nat /\ m \div 4 \in Nat
    BY <1>1, <1>3, <1>4, <2>1, SMT
  <2> QED
    BY <1>1, <2>1, <2>2, <2>3, SMT
<1> QED
  BY <1>5, <1>6, <1>7, <1>8 DEF width

\* The data streams in mode 1 are the windows.
LEMMA Windows1 ==
  ASSUME TInv, Data1, Configured1
  PROVE  F1!WindowsRight(layer.width)
<1> SUFFICES ASSUME at1.now # None, NEW i \in Ports,
                    at1.now.pass * (F1!max_cycle_counter + 1) + at1.now.count - i >= 0
             PROVE  LET len == F1!max_cycle_counter + 1
                        n == at1.now.pass * len + at1.now.count - i
                        pixel == 4 * ((n \div len) \div F1!num_repeats) + i
                        k == F1!Partner(ram.phase, i)
                    IN  <<k, ram.addr[k]>> = F1!Window(layer.width, pixel, n % len)
  BY DEF F1!WindowsRight, F1!Streams, F1!Ports, Ports
<1> DEFINE p == at1.now.pass
           c == at1.now.count
           len == F1!max_cycle_counter + 1
           n == p * len + c - i
           k == Partner(ram.phase, i)
<1>1. len = length /\ length \in Nat \ {0} /\ length >= 64 /\ \E h \in Nat : length = 4 * h
  <2>1. len = length /\ length \in Nat \ {0} /\ length >= 64
    BY SMT DEF Configured1, length
  <2>2. 16 * F1!depth \in Nat /\ length = 4 * (16 * F1!depth)
    BY SMT DEF Configured1, length
  <2> QED
    BY <2>1, <2>2
<1>2. /\ p \in Nat /\ c \in Nat /\ c < length /\ ram.phase = c % 4
      /\ i <= c \/ p >= 1 => ram.addr[k] = Read(p, c, i)
  BY DEF Data1
<1>3. i \in Nat /\ i < 4
  BY SMT DEF Ports
<1>4. n = p * length + c - i /\ n >= 0
  BY <1>1, Zenon
<1> HIDE DEF len
<1>5. k = ((c % 4) - i) % 4 /\ F1!Partner(ram.phase, i) = k
  BY <1>2 DEF Partner, F1!Partner
<1>6. SUFFICES <<k, ram.addr[k]>> = F1!Window(layer.width, 4 * ((n \div length) \div F1!num_repeats) + i, n % length)
  BY <1>1, <1>5 DEF len
<1>7. \A a \in Nat : (4 * (a \div F1!num_repeats) = First(a))
  BY DEF First
<1>8. CASE i <= c
  <2> DEFINE r == c - i
  <2>1. n = length * p + r /\ r \in 0 .. length - 1 /\ r \in Nat /\ r < length
    <3> HIDE DEF n
    <3>1. p * length = length * p /\ p * length \in Nat
      BY <1>1, <1>2, SMT
    <3> QED
      BY <1>1, <1>2, <1>3, <1>4, <1>8, <3>1, SMT
  <2> HIDE DEF n
  <2>2. n \div length = p /\ n % length = r
    BY <1>1, <1>2, <2>1, Quotient
  <2>3. k = r % 4
    BY <1>2, <1>3, <1>5, <1>8, SMT
  <2>4. First(p) + i \in Nat
    <3>1. First(p) \in Nat
      BY <1>2, Blocks1
    <3> QED
      BY <1>3, <3>1, SMT
  <2>5. F1!Window(layer.width, First(p) + i, r) = <<r % 4, WordAddr(First(p) + i, r)>>
    BY <2>1, <2>4, WindowWord
  <2>6. ram.addr[k] = WordAddr(First(p) + i, r)
    BY <1>2, <1>8, Zenon DEF Read
  <2> QED
    BY <1>2, <1>7, <2>2, <2>3, <2>5, <2>6
<1>9. CASE c < i
  <2> DEFINE r == length + c - i
  <2>1. p >= 1 /\ p - 1 \in Nat
    <3> HIDE DEF n
    <3>1. p = 0 => n = c - i
      BY <1>1, <1>2, <1>3, <1>4, SMT
    <3> QED
      BY <1>2, <1>3, <1>4, <1>9, <3>1, SMT
  <2>2. n = length * (p - 1) + r /\ r \in 0 .. length - 1 /\ r \in Nat /\ r < length
    <3> HIDE DEF n
    <3>1. p * length = length * (p - 1) + length /\ length * (p - 1) \in Nat
      <4>1. ASSUME NEW q \in Nat
            PROVE  (q + 1) * length = length * q + length /\ length * q \in Nat
        BY <1>1, SMT
      <4>2. p = (p - 1) + 1
        BY <1>2, SMT
      <4> HIDE DEF p
      <4> QED
        BY <2>1, <4>1, <4>2
    <3> QED
      BY <1>1, <1>2, <1>3, <1>4, <1>9, <3>1, SMT
  <2> HIDE DEF n
  <2>3. n \div length = p - 1 /\ n % length = r
    BY <1>1, <2>1, <2>2, Quotient
  <2>4. k = r % 4
    <3>1. PICK h \in Nat : length = 4 * h
      BY <1>1
    <3> QED
      BY <1>2, <1>3, <1>5, <1>9, <2>2, <3>1, SMT
  <2>5. First(p - 1) + i \in Nat
    <3>1. First(p - 1) \in Nat
      BY <2>1, Blocks1
    <3> QED
      BY <1>3, <3>1, SMT
  <2>6. F1!Window(layer.width, First(p - 1) + i, r) = <<r % 4, WordAddr(First(p - 1) + i, r)>>
    BY <2>2, <2>5, WindowWord
  <2>7. ram.addr[k] = WordAddr(First(p - 1) + i, r)
    <3>1. ~(i <= c)
      BY <1>2, <1>3, <1>9, SMT
    <3> QED
      BY <1>2, <2>1, <3>1, Zenon DEF Read
  <2> QED
    BY <1>7, <2>1, <2>3, <2>4, <2>6, <2>7
<1> QED
  BY <1>2, <1>3, <1>8, <1>9, SMT

-----------------------------------------------------------------------------
(* The windows, always.                                                    *)

\* The inductive invariant: the registers of the fetcher in use say how far it is,
\* and the data under way are those of the cycles before.
Mode0 == Produces0 /\ Even0 /\ Odd0 /\ Quiet
Mode1 == Counts1 /\ Pixels1 /\ Repeats1 /\ Values1 /\ Data1

FetchInv == TInv /\ Mode0 /\ Mode1

\* Nothing runs after the reset.
LEMMA FetchInitially == Init => FetchInv
<1> SUFFICES ASSUME Init PROVE FetchInv
  OBVIOUS
<1>1. TInv
  BY TInitially
<1>2. ~control.running /\ layer = None /\ at0.even = None /\ at0.odd = None /\ at1.now = None
  BY DEF Init, F0!InitFetcher, F1!InitFetcher
<1>3. Mode0
  BY <1>2, Zenon DEF Mode0, Produces0, Even0, Odd0, Quiet
<1>4. Mode1
  BY <1>2, Zenon DEF Mode1, Counts1, Pixels1, Repeats1, Values1, Data1
<1> QED
  BY <1>1, <1>3, <1>4 DEF FetchInv

\* Every step keeps the invariant.
LEMMA FetchStep == FetchInv /\ [Next]_vars => FetchInv'
<1> SUFFICES ASSUME FetchInv, [Next]_vars PROVE FetchInv'
  OBVIOUS
<1>1. TInv /\ TInv'
  BY TStep DEF FetchInv
<1>2. CASE Next
  <2>1. Mode0'
    BY <1>1, <1>2, Produces0Step, Even0Step, Odd0Step, QuietStep DEF FetchInv, Mode0
  <2>2. Mode1'
    BY <1>1, <1>2, Counts1Step, Pixels1Step, Repeats1Step, Values1Step, Data1Step DEF FetchInv, Mode1
  <2> QED
    BY <1>1, <2>1, <2>2 DEF FetchInv
<1>3. CASE UNCHANGED vars
  <2>1. UNCHANGED <<layer, config>> /\ UNCHANGED <<control, pixel_ag1, repeater, value_ags, at1, ram>>
        /\ UNCHANGED <<pixel_ag0, value_ag, reader, at0, idle>>
    BY <1>3 DEF vars
  <2>2. Mode0'
    <3>1. Produces0' /\ Even0' /\ Odd0' /\ Quiet'
      BY <2>1 DEF FetchInv, Mode0, Produces0, Even0, Odd0, Quiet, Row0, F0!Address, Partner
    <3> QED
      BY <3>1 DEF Mode0
  <2>3. Mode1'
    <3>1. Counts1' /\ Pixels1'
      BY <2>1, Same1 DEF FetchInv, Mode1, Counts1, Pixels1, PixelIs
    <3>2. Repeats1' /\ Values1' /\ Data1'
      BY <2>1, Same1 DEF FetchInv, Mode1, Repeats1, Values1, ValueIs, Data1, Partner, Read
    <3> QED
      BY <3>1, <3>2 DEF Mode1
  <2> QED
    BY <1>1, <2>2, <2>3 DEF FetchInv
<1> QED
  BY <1>2, <1>3

\* The invariant always holds.
LEMMA AlwaysFetchInv == Spec => []FetchInv
  BY FetchInitially, FetchStep, PTL DEF Spec

\* The data streams of the fetcher in use are the windows of its layer, from the
\* first pass to the last, whichever layer and mode came before, and although the
\* fetcher was running on the other mode's registers then: if the registers can hold
\* how far apart the rows of every layer are.
THEOREM AlwaysWindowsRight == (\A l \in Layers : FitsRegisters(l)) => (Spec => []WindowsRight)
<1> SUFFICES ASSUME \A l \in Layers : FitsRegisters(l) PROVE Spec => []WindowsRight
  OBVIOUS
<1>1. FetchInv => WindowsRight
  <2> SUFFICES ASSUME FetchInv, layer # None
               PROVE  IF config.mode = 0 THEN F0!WindowsRight ELSE F1!WindowsRight(layer.width)
    BY Zenon DEF WindowsRight
  <2>1. TInv /\ layer \in Layers
    BY DEF FetchInv, TInv, ConfigOK
  <2>2. CASE config.mode = 0
    <3>1. F0!WindowsRight
      BY <2>1, <2>2, Windows0 DEF FetchInv, Mode0
    <3> QED
      BY <2>2, <3>1, Zenon
  <2>3. CASE config.mode # 0
    <3>1. config.mode = 1
      BY <2>1, <2>3 DEF TInv, ConfigOK, Configs
    <3>2. F1!WindowsRight(layer.width)
      BY <2>1, <3>1, Configuration1, Windows1 DEF FetchInv, Mode1
    <3> QED
      BY <2>3, <3>2, Zenon
  <2> QED
    BY <2>2, <2>3
<1> QED
  BY <1>1, AlwaysFetchInv, PTL
=============================================================================
