---------------------------- MODULE Mnv2Batches ----------------------------
(***************************************************************************)
(* How Mnv2ConvPerChannel1x1 (proj/mnv2_first, mnv2_conv.cc) cuts a layer   *)
(* into batches that fit the gateware's stores, and where its pointers into *)
(* the parameters, the filter and the output are while it does so.          *)
(***************************************************************************)
EXTENDS Naturals

CONSTANTS
  InputDepths,   \* the input depths of the layers that are tried
  OutputDepths,  \* and their output depths
  MaxParams,     \* MAX_CONV_OUTPUT_PARAMS: 512
  MaxFilter,     \* MAX_FILTER_VALUES_PER_PIXEL: 8192
  MaxInput       \* MAX_CONV_INPUT_VALUES: 4096

ASSUME ConstantsAssumption ==
  /\ InputDepths \subseteq Nat /\ OutputDepths \subseteq Nat
  /\ {MaxParams, MaxFilter, MaxInput} \subseteq Nat \ {0}

VARIABLES
  input_depth,  \* of the layer
  output_depth,
  batch,
  params,       \* how far output_multiplier, output_shift and bias_data moved
  filter,       \* how far filter_words moved, in words
  outputs       \* channels of a pixel written to output_data

layer == <<input_depth, output_depth>>
vars == <<layer, batch, params, filter, outputs>>

\* ConvPerChannel hands a layer to the accelerator only if these hold.
Accelerated ==
  /\ input_depth > 0 /\ output_depth > 0
  /\ input_depth < MaxInput
  /\ input_depth % 8 = 0 /\ output_depth % 8 = 0

Init ==
  /\ input_depth \in InputDepths /\ output_depth \in OutputDepths
  /\ Accelerated
  /\ batch = 0 /\ params = 0 /\ filter = 0 /\ outputs = 0

Lower(a, b) == IF a < b THEN a ELSE b
RoundDown(n, m) == m * (n \div m)
RoundUp(n, m) == m * ((n + m - 1) \div m)

input_depth_words == input_depth \div 4

\* Mutant: the batch is not limited by the parameter memories.
channels_per_batch_unlimited ==
  RoundDown(Lower(output_depth, MaxFilter \div input_depth), 4)

\* Mutant: the batch is not rounded to words.
channels_per_batch_unrounded ==
  Lower(output_depth, Lower(MaxParams, MaxFilter \div input_depth))

\* CalculateChannelsPerBatch
channels_per_batch ==
  RoundDown(Lower(output_depth, Lower(MaxParams, MaxFilter \div input_depth)), 4)

\* Mutant: the last, partial batch is forgotten.
num_batches_floor == output_depth \div channels_per_batch

num_batches == (channels_per_batch - 1 + output_depth) \div channels_per_batch

batch_base == batch * channels_per_batch

batch_size == Lower(output_depth, batch_base + channels_per_batch) - batch_base

\* One turn of the loop: LoadOutputChannelWeights moves its pointers by fours,
\* LoadFilterValues by eights; the outputs of each pixel follow batch_base.
Batch ==
  /\ channels_per_batch > 0 /\ batch < num_batches
  /\ batch' = batch + 1
  /\ params' = params + RoundUp(batch_size, 4)
  /\ filter' = filter + RoundUp(batch_size * input_depth_words, 8)
  /\ outputs' = batch_base + batch_size
  /\ UNCHANGED layer

Next == Batch

\* The loop goes on.
Spec == Init /\ [][Next]_vars /\ WF_vars(Next)

-----------------------------------------------------------------------------
(* Properties                                                              *)

\* A batch never overfills a store, although the loads are rounded up: the
\* gateware checks nothing (StoreSetter, software_cfu.cc:278).
StoresSuffice ==
  channels_per_batch > 0 /\ batch < num_batches =>
    /\ RoundUp(batch_size, 4) <= MaxParams
    /\ 4 * RoundUp(batch_size * input_depth_words, 8) <= MaxFilter

\* The parameter and filter pointers, moved by rounded amounts, stay on the
\* channel the batch begins with, and the outputs leave no channel out.
PointersAgree ==
  /\ params = outputs
  /\ filter = outputs * input_depth_words

\* mnv2_conv.cc:42 says that a layer that exceeds the limits is broken "into
\* batches": it is not left with a batch of no channels.
LimitsBatched == channels_per_batch > 0

\* Every channel of a layer whose batches have channels is computed.
AllChannels == <>(outputs = output_depth)
=============================================================================
