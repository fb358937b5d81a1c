-------------------------------- MODULE Cfu --------------------------------
(***************************************************************************)
(* The custom function unit of python/amaranth_cfu/cfu.py as the CPU sees  *)
(* it: the three-state machine of Cfu.elab, the eight instructions behind  *)
(* it (the project's own and the fallback), and the controller of          *)
(* soc/clock_control.py that stops the clock of whichever side is waiting. *)
(*                                                                         *)
(* One action is one cycle of the oscillator.  The wires of a cycle are    *)
(* the parameters of the actions; `cfu` holds the registers clocked by the *)
(* CFU's clock, `cmd`, `issued` and `answered` those clocked by the CPU's. *)
(***************************************************************************)
EXTENDS Naturals, Sequences

CONSTANTS
  FunctionIds,   \* the values of funct3
  Implemented,   \* the functions elab_instructions supplies
  Operands,      \* the operand pairs a command carries
  Outputs,       \* Outputs[f][x]: what function f may return for operands x
  ClockControl,  \* whether the SoC is built with --dynamic-clock-control
  MaxCommands,   \* bound: commands the CPU issues between two resets
  NoCmd,         \* cmd_valid is low
  Nothing        \* an operand or output register that holds nothing of use

Commands == [fn : FunctionIds, in : Operands]

Words == UNION {Outputs[f][x] : f \in FunctionIds, x \in Operands}

ASSUME ConstantsAssumption ==
  /\ 0 \in FunctionIds
  /\ Implemented \subseteq FunctionIds
  /\ ClockControl \in BOOLEAN
  /\ MaxCommands \in Nat
  /\ NoCmd \notin Commands
  /\ Nothing \notin Operands \cup Words
  /\ \A f \in FunctionIds, x \in Operands : Outputs[f][x] # {}
  \* _FallbackInstruction returns its first operand
  /\ \A f \in FunctionIds \ Implemented, x \in Operands : Outputs[f][x] = {x}

VARIABLES
  cmd,       \* the command on the wires, held until cmd_ready
  issued,    \* the commands the CPU saw accepted since the last reset
  answered,  \* the words the CPU received since the last reset
  cfu,       \* the FSM, stored_function_id, stored_output and, for each
             \* instruction, the operands it latched when it was started
  clk        \* the state of CfuCpuClockCtrl

vars == <<cmd, issued, answered, cfu, clk>>

ResetCfu ==
  [fsm |-> "WAIT_CMD", stored_function_id |-> 0, stored_output |-> Nothing,
   running |-> [f \in FunctionIds |-> Nothing]]

Init ==
  /\ cmd \in {NoCmd} \cup Commands
  /\ issued = <<>>
  /\ answered = <<>>
  /\ cfu = ResetCfu
  /\ clk = "CPU_ENABLED"

-----------------------------------------------------------------------------
(* CfuCpuClockCtrl: who is clocked in this cycle.                          *)

cmd_valid == cmd # NoCmd
cmd_ready == cfu.fsm = "WAIT_CMD"

CpuWaits(rsp_valid) == clk = "CFU_ENABLED" /\ ~rsp_valid /\ ~cmd_valid

\* Mutant: the CPU sleeps whenever it has no command, even if it is being answered.
cpu_cen_ignores_response(rsp_valid) ==
  ClockControl /\ clk = "CFU_ENABLED" /\ ~cmd_valid => cmd_ready

cpu_cen(rsp_valid) == ClockControl /\ CpuWaits(rsp_valid) => cmd_ready

\* Mutant: the CFU is clocked only while the CPU presents a command.
cfu_cen_commands_only == ClockControl => cmd_valid

cfu_cen == ClockControl /\ clk = "CPU_ENABLED" => cmd_valid

ClockEdge(rsp_valid) ==
  clk' = CASE clk = "CPU_ENABLED" /\ cmd_valid -> "CFU_ENABLED"
           [] CpuWaits(rsp_valid) /\ cmd_ready -> "CPU_ENABLED"
           [] OTHER -> clk

-----------------------------------------------------------------------------
(* The CPU: it holds a command until it is accepted, and may put the next  *)
(* one on the wires while the previous one is still being executed.        *)

NextCommands(n) == {NoCmd} \cup (IF n < MaxCommands THEN Commands ELSE {})

\* Mutant: the CPU takes the response wires without looking at rsp_valid.
CpuEdge_no_valid(rsp_valid, rsp_out, rsp_ready) ==
  /\ issued' = IF cmd_valid /\ cmd_ready THEN Append(issued, cmd) ELSE issued
  /\ answered' = IF rsp_ready /\ ~cmd_ready THEN Append(answered, rsp_out) ELSE answered
  /\ IF cmd_valid /\ ~cmd_ready THEN cmd' = cmd ELSE cmd' \in NextCommands(Len(issued'))

CpuEdge(rsp_valid, rsp_out, rsp_ready) ==
  /\ issued' = IF cmd_valid /\ cmd_ready THEN Append(issued, cmd) ELSE issued
  /\ answered' = IF rsp_valid /\ rsp_ready THEN Append(answered, rsp_out) ELSE answered
  /\ IF cmd_valid /\ ~cmd_ready THEN cmd' = cmd ELSE cmd' \in NextCommands(Len(issued'))

-----------------------------------------------------------------------------
(* The CFU.  Cycle(rsp_valid, rsp_out, rsp_ready, next): a cycle with these *)
(* wires, in which the CFU's FSM and instructions compute `next`.  A side   *)
(* whose clock is stopped keeps its registers.                              *)

Cycle(rsp_valid, rsp_out, rsp_ready, next) ==
  /\ cfu' = IF cfu_cen THEN next ELSE cfu
  /\ IF cpu_cen(rsp_valid) THEN CpuEdge(rsp_valid, rsp_out, rsp_ready)
     ELSE UNCHANGED <<cmd, issued, answered>>
  /\ ClockEdge(rsp_valid)

\* Mutant: stored_output is written when the CPU takes the word, not when it does not.
Finish_unstored(w, rsp_ready, current) ==
  Cycle(TRUE, w, rsp_ready,
        IF rsp_ready THEN [current EXCEPT !.fsm = "WAIT_CMD", !.stored_output = w]
        ELSE [current EXCEPT !.fsm = "WAIT_TRANSFER"])

\* check_instruction_done when current_function_done is high: the word goes to
\* the CPU, or into stored_output if the CPU is not ready for it.
Finish(w, rsp_ready, current) ==
  Cycle(TRUE, w, rsp_ready,
        IF rsp_ready THEN [current EXCEPT !.fsm = "WAIT_CMD"]
        ELSE [current EXCEPT !.fsm = "WAIT_TRANSFER", !.stored_output = w])

NoCommand(rsp_ready) ==
  /\ cfu.fsm = "WAIT_CMD" /\ ~cmd_valid
  /\ Cycle(FALSE, Nothing, rsp_ready, cfu)

\* WAIT_CMD, and the addressed instruction is done in the cycle that starts it.
StartAndFinish(rsp_ready) ==
  /\ cfu.fsm = "WAIT_CMD" /\ cmd_valid
  /\ \E w \in Outputs[cmd.fn][cmd.in] :
       Finish(w, rsp_ready, [cfu EXCEPT !.stored_function_id = cmd.fn])

\* Mutant: the CFU does not remember which instruction it waits for.
Start_unnamed(rsp_ready) ==
  /\ cfu.fsm = "WAIT_CMD" /\ cmd_valid
  /\ cmd.fn \in Implemented
  /\ Cycle(FALSE, Nothing, rsp_ready,
           [cfu EXCEPT !.fsm = "WAIT_INSTRUCTION", !.running[cmd.fn] = cmd.in])

\* WAIT_CMD, and the instruction needs more cycles: it latches the operands,
\* which are on the wires in this cycle only.
Start(rsp_ready) ==
  /\ cfu.fsm = "WAIT_CMD" /\ cmd_valid
  /\ cmd.fn \in Implemented
  /\ Cycle(FALSE, Nothing, rsp_ready,
           [cfu EXCEPT !.fsm = "WAIT_INSTRUCTION", !.stored_function_id = cmd.fn,
                       !.running[cmd.fn] = cmd.in])

Execute(rsp_ready) ==
  /\ cfu.fsm = "WAIT_INSTRUCTION"
  /\ cfu.stored_function_id \in Implemented
  /\ Cycle(FALSE, Nothing, rsp_ready, cfu)

FinishInstruction(rsp_ready) ==
  LET f == cfu.stored_function_id
  IN  /\ cfu.fsm = "WAIT_INSTRUCTION" /\ cfu.running[f] # Nothing
      /\ \E w \in Outputs[f][cfu.running[f]] :
           Finish(w, rsp_ready, [cfu EXCEPT !.running[f] = Nothing])

\* Mutant: the CFU drops a response the CPU does not take at once.
Transfer_once(rsp_ready) ==
  /\ cfu.fsm = "WAIT_TRANSFER"
  /\ Cycle(TRUE, cfu.stored_output, rsp_ready, [cfu EXCEPT !.fsm = "WAIT_CMD"])

Transfer(rsp_ready) ==
  /\ cfu.fsm = "WAIT_TRANSFER"
  /\ Cycle(TRUE, cfu.stored_output, rsp_ready,
           IF rsp_ready THEN [cfu EXCEPT !.fsm = "WAIT_CMD"] ELSE cfu)

\* The reset input is tied to the reset of the CFU's clock domain, and the same
\* oscillator-domain reset restarts the CPU and the clock controller.
Reset ==
  /\ cfu' = ResetCfu
  /\ clk' = "CPU_ENABLED"
  /\ cmd' = NoCmd
  /\ issued' = <<>>
  /\ answered' = <<>>

Tick ==
  \E rsp_ready \in BOOLEAN :
    \/ NoCommand(rsp_ready)
    \/ StartAndFinish(rsp_ready)
    \/ Start(rsp_ready)
    \/ Execute(rsp_ready)
    \/ FinishInstruction(rsp_ready)
    \/ Transfer(rsp_ready)

Next == Tick \/ Reset

\* The oscillator runs; an instruction that was started completes; the CPU does
\* not refuse a response for ever.
Fairness ==
  /\ WF_vars(Tick)
  /\ WF_vars(\E rsp_ready \in BOOLEAN : FinishInstruction(rsp_ready))
  /\ WF_vars(Transfer(TRUE))

Spec == Init /\ [][Next]_vars /\ Fairness

-----------------------------------------------------------------------------
(* Properties                                                              *)

\* The registers of both sides hold values of their types.
TypeOK ==
  /\ cmd \in Commands \cup {NoCmd}
  /\ issued \in Seq(Commands)
  /\ answered \in Seq(Words)
  /\ cfu \in [fsm : {"WAIT_CMD", "WAIT_INSTRUCTION", "WAIT_TRANSFER"},
             stored_function_id : FunctionIds,
             stored_output : Words \cup {Nothing},
             running : [FunctionIds -> Operands \cup {Nothing}]]
  /\ clk \in {"CPU_ENABLED", "CFU_ENABLED"}

\* No command and no response is lost or taken twice at the handshake, whichever
\* of the two clocks is stopped: the CPU is owed an answer exactly while the CFU
\* is outside WAIT_CMD (Cfu.elab against CfuCpuClockCtrl).
NothingLost ==
  Len(issued) = Len(answered) + IF cmd_ready THEN 0 ELSE 1

\* The CFU's clock is stopped only when it has nothing to do, so stopping it
\* can delay neither an instruction nor a response (CfuCpuClockCtrl).
CfuStopsOnlyIdle ==
  ~cfu_cen => cmd_ready /\ \A f \in FunctionIds : cfu.running[f] = Nothing

\* A response the CPU has not taken stays on the wires unchanged (WAIT_TRANSFER).
ResponseHeld ==
  [][cfu.fsm = "WAIT_TRANSFER" /\ answered' = answered => cfu' = cfu \/ cfu' = ResetCfu]_vars

\* The CFU, its instructions and the clock controller together do what the CPU
\* relies on: commands are answered in order, each by the function it names and
\* for the operands it carried, and no accepted command stays unanswered.
Protocol == INSTANCE CfuProtocol
ImplementsProtocol == Protocol!Spec

\* A command the CPU presents is accepted and every command is answered, unless
\* a reset intervenes: neither side sleeps while the other waits for it.
CommandsProgress ==
  \A n \in 0 .. MaxCommands :
    /\ (cmd_valid /\ Len(issued) = n) ~> (Len(issued) # n \/ ~cmd_valid)
    /\ (Len(issued) > n) ~> (Len(answered) > n \/ issued = <<>>)
=============================================================================
