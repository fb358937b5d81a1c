---------------------------- MODULE GenCommands ----------------------------
(***************************************************************************)
(* The commands of the gen_* accelerators with no cycle in them, as the    *)
(* driver's author thinks of them and as accel_imgc/src/software_cfu.cc    *)
(* emulates them for the commands it shares: the input words and each      *)
(* bank's filter words are queues, and a step of the accumulation takes a  *)
(* word from the front of each and puts it back at the end.                *)
(***************************************************************************)
EXTENDS Naturals, Sequences

CONSTANTS
  FILTER_BANKS,  \* number of filter banks
  Words,         \* word pairs
  Params,        \* parameter values: offsets, bias, multiplier and shift
  Zero           \* a register that was reset

VARIABLES
  input,   \* the input words
  filter,  \* the filter words of each bank
  wr_idx,  \* the bank that is being filled
  rd_idx,  \* the bank that is being used
  acc,     \* the products summed since the last MAC_CLEAR
  par,     \* the parameter registers
  result   \* the answer to the latest command: a quantized result, or nothing

vars == <<input, filter, wr_idx, rd_idx, acc, par, result>>

Banks == 0 .. FILTER_BANKS - 1

Rotated(q) == Append(Tail(q), Head(q))

Init ==
  /\ input = <<>>
  /\ filter = [b \in Banks |-> <<>>]
  /\ wr_idx = 0 /\ rd_idx = 0
  /\ acc = <<>>
  /\ par = [n \in {"mac_offset", "bias", "mul", "shift", "offset", "clamp"} |-> Zero]
  /\ result = <<>>

ClearAcc == acc' = <<>> /\ UNCHANGED <<input, filter, wr_idx, rd_idx, par>>

SetInputVals ==
  /\ \E w \in Words : input' = Append(input, w)
  /\ UNCHANGED <<filter, wr_idx, rd_idx, acc, par>>

ClearInputVals == input' = <<>> /\ UNCHANGED <<filter, wr_idx, rd_idx, acc, par>>

\* The filter word is the oldest of the bank in use ...
MacOnBuffer ==
  /\ input # <<>> /\ filter[rd_idx] # <<>>
  /\ acc' = Append(acc, <<Head(input), par["mac_offset"], Head(filter[rd_idx])>>)
  /\ input' = Rotated(input)
  /\ filter' = [filter EXCEPT ![rd_idx] = Rotated(@)]
  /\ UNCHANGED <<wr_idx, rd_idx, par>>

\* ... or comes with the command.
MacOnBufferWith ==
  /\ input # <<>>
  /\ \E w \in Words : acc' = Append(acc, <<Head(input), par["mac_offset"], w>>)
  /\ input' = Rotated(input)
  /\ UNCHANGED <<filter, wr_idx, rd_idx, par>>

SetFilterVals ==
  /\ \E w \in Words : filter' = [filter EXCEPT ![wr_idx] = Append(@, w)]
  /\ UNCHANGED <<input, wr_idx, rd_idx, acc, par>>

ClearFilterVals ==
  /\ filter' = [b \in Banks |-> <<>>]
  /\ wr_idx' = 0 /\ rd_idx' = 0
  /\ UNCHANGED <<input, acc, par>>

NextFilterSet ==
  /\ wr_idx' = (wr_idx + 1) % FILTER_BANKS
  /\ UNCHANGED <<input, filter, rd_idx, acc, par>>

RewindFilterSet == rd_idx' = 0 /\ UNCHANGED <<input, filter, wr_idx, acc, par>>

SetParameter ==
  /\ \E names \in SUBSET DOMAIN par, v \in Params :
       par' = [n \in DOMAIN par |-> IF n \in names THEN v ELSE par[n]]
  /\ UNCHANGED <<input, filter, wr_idx, rd_idx, acc>>

\* The result is made of what the registers hold, and the next bank is selected.
Get ==
  /\ result' = <<acc, par>>
  /\ rd_idx' = (rd_idx + 1) % FILTER_BANKS
  /\ UNCHANGED <<input, filter, wr_idx, acc, par>>

Reset == Init'

Next ==
  \/ /\ \/ ClearAcc \/ SetInputVals \/ ClearInputVals \/ MacOnBuffer \/ MacOnBufferWith
        \/ SetFilterVals \/ ClearFilterVals \/ NextFilterSet \/ RewindFilterSet
        \/ SetParameter
     /\ result' = <<>>
  \/ Get
  \/ Reset

Spec == Init /\ [][Next]_vars
=============================================================================
