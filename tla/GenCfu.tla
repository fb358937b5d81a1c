------------------------------- MODULE GenCfu -------------------------------
(***************************************************************************)
(* The accelerator of proj/gen_vww, gen_kws, gen_imgc and gen_pdti8        *)
(* (cfu.v and gateware/), clock edge by clock edge, and in the design      *)
(* "streamed" that of gen_adti8, which has no filter banks: there the      *)
(* filter words come with the command.                                     *)
(*                                                                         *)
(* An action is one edge of the clock in one branch of cfu.v's `always`    *)
(* block.  Commands name the registers and the strobes they set; a strobe  *)
(* is high for the one cycle that follows, in which the buffers and the    *)
(* quantizer see it.  Words are tokens and the accumulator is the sequence *)
(* of the products added to it.                                            *)
(***************************************************************************)
EXTENDS GenFifo

CONSTANTS
  FILTER_BANKS,  \* filter banks
  Params,        \* parameter values
  Zero,          \* the value of a register after reset
  Unwritten      \* what a register or memory holds that was not written since the reset

ASSUME BanksAssumption == FILTER_BANKS \in Nat \ {0}

VARIABLES
  design,  \* "banked" or "streamed"
  rsp,     \* rsp_valid, rsp_payload_outputs_0, flag_qnt_pending
  flags,   \* the strobes
  regs,    \* accumulator, write data, bank indices, parameters
  offset_applied,  \* the offset input_*_and_offset were loaded with
  inputs,  \* the input buffer
  banks,   \* the filter buffers
  quant    \* the quantizer's registers

cfu_vars == <<design, rsp, flags, regs, offset_applied, inputs, banks, quant>>

Banks == 0 .. FILTER_BANKS - 1

NewBuffer ==
  [mem |-> [p \in Places |-> Unwritten], rd_ptr |-> 0, wr_ptr |-> 0, cnt |-> 0,
   read_data |-> Zero]

NoFlags ==
  [in_clear |-> FALSE, in_write |-> FALSE, in_read |-> FALSE,
   filter_clear |-> FALSE, filter_write |-> {}, filter_read |-> {}, qnt_start |-> FALSE]

NewPar == [n \in {"mac_offset", "bias", "mul", "shift", "offset", "clamp"} |-> Zero]

NewRegs ==
  [acc |-> <<>>, in_word |-> Unwritten, filter_word |-> Unwritten,
   wr_idx |-> 0, rd_idx |-> 0, par |-> NewPar]

NewQuant == [stage |-> FALSE, status |-> FALSE, ab |-> <<>>, scaled |-> <<>>]

NewRsp == [valid |-> FALSE, pending |-> FALSE, out |-> <<>>]

InitCfu ==
  /\ design \in {"banked", "streamed"}
  /\ rsp = NewRsp
  /\ flags = NoFlags
  /\ regs = NewRegs
  /\ offset_applied = Zero
  /\ inputs = NewBuffer
  /\ banks = [b \in Banks |-> NewBuffer]
  /\ quant = NewQuant

-----------------------------------------------------------------------------
(* What every clock edge does outside cfu.v's case statement.              *)

BufferEdge(b, clear, write_en, write_data, read_en) ==
  IF clear THEN Cleared(b, Zero) ELSE FifoEdge(b, write_en, write_data, read_en)

next_inputs == BufferEdge(inputs, flags.in_clear, flags.in_write, regs.in_word, flags.in_read)

next_banks ==
  [b \in Banks |->
     BufferEdge(banks[b], flags.filter_clear, b \in flags.filter_write, regs.filter_word,
                b \in flags.filter_read)]

\* Mutant: the status register's default overrides its assignment.
next_quant_silent ==
  [stage  |-> ~quant.stage /\ flags.qnt_start,
   status |-> FALSE,
   ab     |-> IF flags.qnt_start /\ ~quant.stage THEN <<regs.acc, regs.par>> ELSE quant.ab,
   scaled |-> IF quant.stage THEN quant.ab ELSE quant.scaled]

\* cfu_quantizer: the product is registered, then rounded; shift, offset and
\* bounds are applied to the rounded product as it is read.
next_quant ==
  [stage  |-> ~quant.stage /\ flags.qnt_start,
   status |-> quant.stage,
   ab     |-> IF flags.qnt_start /\ ~quant.stage THEN <<regs.acc, regs.par>> ELSE quant.ab,
   scaled |-> IF quant.stage THEN quant.ab ELSE quant.scaled]

qnt_out ==
  <<quant.scaled[1],
    [n \in DOMAIN regs.par |->
       IF n \in {"shift", "offset", "clamp"} THEN regs.par[n] ELSE quant.scaled[2][n]]>>

Datapath ==
  /\ inputs' = next_inputs
  /\ banks' = next_banks
  /\ offset_applied' = IF flags.in_clear THEN Zero ELSE regs.par["mac_offset"]
  /\ quant' = next_quant
  /\ UNCHANGED design

Edge(next_rsp, next_flags, next_regs) ==
  /\ rsp' = next_rsp
  /\ flags' = next_flags
  /\ regs' = next_regs
  /\ Datapath

-----------------------------------------------------------------------------
(* The branches in which no command is accepted.                           *)

cmd_ready == ~rsp.valid /\ ~rsp.pending

NoCommand == cmd_ready /\ Edge(rsp, NoFlags, regs)

\* rsp_ready is low, or high.
HoldResponse == rsp.valid /\ Edge(rsp, NoFlags, regs)

TakeResponse == rsp.valid /\ Edge([rsp EXCEPT !.valid = FALSE], NoFlags, regs)

AwaitQuantizer ==
  /\ ~rsp.valid /\ rsp.pending /\ ~quant.status
  /\ Edge(rsp, NoFlags, regs)

\* Mutant: the next result is computed with the same bank's filter words.
FinishGet_same_bank ==
  /\ ~rsp.valid /\ rsp.pending /\ quant.status
  /\ Edge([valid |-> TRUE, pending |-> FALSE, out |-> qnt_out], NoFlags, regs)

FinishGet ==
  /\ ~rsp.valid /\ rsp.pending /\ quant.status
  /\ Edge([valid |-> TRUE, pending |-> FALSE, out |-> qnt_out], NoFlags,
          [regs EXCEPT !.rd_idx = (@ + 1) % FILTER_BANKS])

-----------------------------------------------------------------------------
(* The commands.                                                           *)

Accept(next_flags, next_regs) ==
  cmd_ready /\ Edge([rsp EXCEPT !.valid = TRUE, !.out = <<>>], next_flags, next_regs)

MacClear == Accept(NoFlags, [regs EXCEPT !.acc = <<>>])

SetParameters(names, v) ==
  Accept(NoFlags, [regs EXCEPT !.par = [n \in DOMAIN @ |-> IF n \in names THEN v ELSE @[n]]])

MacSetOffset(v) == SetParameters({"mac_offset"}, v)
SetBias(v) == SetParameters({"bias"}, v)
SetMulAndShift(v) == SetParameters({"mul", "shift"}, v)
SetOffset(v) == SetParameters({"offset"}, v)
SetMinAndMax(v) == SetParameters({"clamp"}, v)

SetInputVals(w) ==
  Accept([NoFlags EXCEPT !.in_write = TRUE], [regs EXCEPT !.in_word = w])

ClearInputVals == Accept([NoFlags EXCEPT !.in_clear = TRUE], regs)

\* Mutant: the filter word goes back to the bank that was filled last.
MacOnBuffer_other_bank ==
  LET in_word == inputs.read_data
      filter_word == banks[regs.rd_idx].read_data
  IN  /\ design = "banked"
      /\ Accept([NoFlags EXCEPT !.in_read = TRUE, !.in_write = TRUE,
                                !.filter_read = {regs.rd_idx}, !.filter_write = {regs.wr_idx}],
                [regs EXCEPT !.acc = Append(@, <<in_word, offset_applied, filter_word>>),
                             !.in_word = in_word, !.filter_word = filter_word])

\* The words in read_data are multiplied, and go back to the end of the buffer.
MacOnBuffer ==
  LET in_word == inputs.read_data
      filter_word == banks[regs.rd_idx].read_data
  IN  /\ design = "banked"
      /\ Accept([NoFlags EXCEPT !.in_read = TRUE, !.in_write = TRUE,
                                !.filter_read = {regs.rd_idx}, !.filter_write = {regs.rd_idx}],
                [regs EXCEPT !.acc = Append(@, <<in_word, offset_applied, filter_word>>),
                             !.in_word = in_word, !.filter_word = filter_word])

MacOnBufferWith(filter_word) ==
  /\ design = "streamed"
  /\ Accept([NoFlags EXCEPT !.in_read = TRUE, !.in_write = TRUE],
            [regs EXCEPT !.acc = Append(@, <<inputs.read_data, offset_applied, filter_word>>),
                         !.in_word = inputs.read_data])

SetFilterVals(w) ==
  /\ design = "banked"
  /\ Accept([NoFlags EXCEPT !.filter_write = {regs.wr_idx}], [regs EXCEPT !.filter_word = w])

\* Mutant: only the bank indices are reset.
ClearFilterVals_indices_only ==
  /\ design = "banked"
  /\ Accept(NoFlags, [regs EXCEPT !.wr_idx = 0, !.rd_idx = 0])

ClearFilterVals ==
  /\ design = "banked"
  /\ Accept([NoFlags EXCEPT !.filter_clear = TRUE], [regs EXCEPT !.wr_idx = 0, !.rd_idx = 0])

NextFilterSet ==
  /\ design = "banked"
  /\ Accept(NoFlags, [regs EXCEPT !.wr_idx = (@ + 1) % FILTER_BANKS])

RewindFilterSet == design = "banked" /\ Accept(NoFlags, [regs EXCEPT !.rd_idx = 0])

Get ==
  /\ cmd_ready
  /\ Edge([rsp EXCEPT !.pending = TRUE, !.out = <<>>], [NoFlags EXCEPT !.qnt_start = TRUE], regs)

\* The memories and the write data registers are not reset: what they hold then is
\* no longer of use, as before they were written.
Reset ==
  /\ rsp' = NewRsp
  /\ flags' = NoFlags
  /\ regs' = NewRegs
  /\ offset_applied' = Zero
  /\ inputs' = NewBuffer
  /\ banks' = [b \in Banks |-> NewBuffer]
  /\ quant' = NewQuant
  /\ UNCHANGED design

-----------------------------------------------------------------------------
(* The queues the buffers are when the strobes of this cycle have acted.   *)

Commands == INSTANCE GenCommands WITH
  input  <- Contents(next_inputs),
  filter <- [b \in Banks |-> Contents(next_banks[b])],
  wr_idx <- regs.wr_idx,
  rd_idx <- regs.rd_idx,
  acc    <- regs.acc,
  par    <- regs.par,
  result <- rsp.out
=============================================================================
