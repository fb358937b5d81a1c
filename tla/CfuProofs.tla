----------------------------- MODULE CfuProofs -----------------------------
(***************************************************************************)
(* Proofs about Cfu for every set of functions, operands and outputs, with *)
(* and without clock control.                                              *)
(***************************************************************************)
EXTENDS Cfu, TLAPS

Last(s) == s[Len(s)]

\* The instruction the CFU waits for was started by the last command, with its
\* operands, and no other instruction is executing.
ExecutesLast ==
  /\ cfu.fsm = "WAIT_INSTRUCTION" =>
       /\ cfu.stored_function_id = Last(issued).fn
       /\ cfu.running = [f \in FunctionIds |->
                           IF f = Last(issued).fn THEN Last(issued).in ELSE Nothing]
  /\ cfu.fsm # "WAIT_INSTRUCTION" => cfu.running = [f \in FunctionIds |-> Nothing]

\* The word waiting for the CPU is an answer to the last command.
StoresAnswer ==
  cfu.fsm = "WAIT_TRANSFER" =>
    cfu.stored_output \in Outputs[Last(issued).fn][Last(issued).in]

\* While the CFU's clock may be stopped, it is idle.
ClockFollows == clk = "CPU_ENABLED" => cmd_ready

IInv ==
  /\ TypeOK
  /\ NothingLost
  /\ ExecutesLast
  /\ StoresAnswer
  /\ ClockFollows

-----------------------------------------------------------------------------

LEMMA InitIInv == Init => IInv
<1> SUFFICES ASSUME Init PROVE IInv
  OBVIOUS
<1> USE ConstantsAssumption DEF Init, ResetCfu
<1>1. TypeOK
  BY DEF TypeOK
<1>2. NothingLost /\ ExecutesLast /\ StoresAnswer /\ ClockFollows
  BY DEF NothingLost, ExecutesLast, StoresAnswer, ClockFollows, cmd_ready
<1>3. QED
  BY <1>1, <1>2 DEF IInv

\* Under the invariant a stopped clock stops nothing: the CFU always moves to the
\* registers it computed, and the CPU misses neither a command nor a response.
LEMMA ClocksHarmless ==
  ASSUME IInv, NEW rv \in BOOLEAN, NEW ro, NEW rr \in BOOLEAN, NEW next,
         Cycle(rv, ro, rr, next),
         cmd_ready => cmd_valid \/ next = cfu
  PROVE  /\ cfu' = next
         /\ \/ CpuEdge(rv, ro, rr)
            \/ /\ ~rv /\ cfu.fsm # "WAIT_CMD"
               /\ UNCHANGED <<cmd, issued, answered>>
  BY DEF IInv, ClockFollows, Cycle, cfu_cen, cpu_cen, CpuWaits, cmd_ready

LEMMA AnswersAreWords ==
  ASSUME NEW f \in FunctionIds, NEW x \in Operands
  PROVE  Outputs[f][x] \subseteq Words
  BY DEF Words

\* The CPU's side of a cycle in which it accepts or receives nothing.
LEMMA QuietCpu ==
  ASSUME IInv, NEW ro, NEW rr \in BOOLEAN, CpuEdge(FALSE, ro, rr), ~(cmd_valid /\ cmd_ready)
  PROVE  issued' = issued /\ answered' = answered /\ cmd' \in Commands \cup {NoCmd}
  BY DEF IInv, TypeOK, CpuEdge, NextCommands

\* A cycle without a command changes nothing the CPU or the CFU can observe.
LEMMA NoCommandStep ==
  ASSUME IInv, NEW rr \in BOOLEAN, NoCommand(rr)
  PROVE  IInv' /\ [Protocol!Next]_(Protocol!vars)
<1> USE DEF IInv
<1>1. cfu' = cfu /\ issued' = issued /\ answered' = answered /\ cmd' \in Commands \cup {NoCmd}
  <2>1. Cycle(FALSE, Nothing, rr, cfu)
    BY DEF NoCommand
  <2>2. cfu' = cfu /\ CpuEdge(FALSE, Nothing, rr)
    BY <2>1, ClocksHarmless DEF NoCommand
  <2>3. QED
    BY <2>2, QuietCpu DEF NoCommand
<1>2. clk' \in {"CPU_ENABLED", "CFU_ENABLED"}
  BY DEF NoCommand, Cycle, ClockEdge, TypeOK
<1>3. TypeOK'
  BY <1>1, <1>2 DEF TypeOK
<1>4. NothingLost' /\ ExecutesLast' /\ StoresAnswer' /\ ClockFollows'
  BY <1>1 DEF NoCommand, NothingLost, ExecutesLast, StoresAnswer, ClockFollows,
                    cmd_ready, Last
<1>5. QED
  BY <1>1, <1>3, <1>4 DEF Protocol!vars

\* Waiting for an instruction changes nothing, even if the CPU's clock is stopped.
LEMMA ExecuteStep ==
  ASSUME IInv, NEW rr \in BOOLEAN, Execute(rr)
  PROVE  IInv' /\ [Protocol!Next]_(Protocol!vars)
<1> USE DEF IInv
<1>1. cfu' = cfu /\ issued' = issued /\ answered' = answered /\ cmd' \in Commands \cup {NoCmd}
  <2>1. Cycle(FALSE, Nothing, rr, cfu) /\ cfu.fsm = "WAIT_INSTRUCTION"
    BY DEF Execute
  <2>2. cfu' = cfu
    BY <2>1, ClocksHarmless
  <2>3. CASE CpuEdge(FALSE, Nothing, rr)
    BY <2>1, <2>2, <2>3, QuietCpu DEF cmd_ready
  <2>4. CASE UNCHANGED <<cmd, issued, answered>>
    BY <2>2, <2>4 DEF TypeOK
  <2>5. QED
    BY <2>1, <2>3, <2>4, ClocksHarmless
<1>2. clk' \in {"CPU_ENABLED", "CFU_ENABLED"}
  BY DEF Execute, Cycle, ClockEdge, TypeOK
<1>3. clk' = "CPU_ENABLED" => clk = "CPU_ENABLED"
  BY DEF Execute, Cycle, ClockEdge, TypeOK, cmd_ready
<1>4. TypeOK'
  BY <1>1, <1>2 DEF TypeOK
<1>5. NothingLost' /\ ExecutesLast' /\ StoresAnswer' /\ ClockFollows'
  BY <1>1, <1>3 DEF NothingLost, ExecutesLast, StoresAnswer, ClockFollows, cmd_ready, Last
<1>6. QED
  BY <1>1, <1>4, <1>5 DEF Protocol!vars

\* Starting an instruction issues the command.
LEMMA StartStep ==
  ASSUME IInv, NEW rr \in BOOLEAN, Start(rr)
  PROVE  IInv' /\ [Protocol!Next]_(Protocol!vars)
<1> USE DEF IInv
<1> DEFINE next == [cfu EXCEPT !.fsm = "WAIT_INSTRUCTION", !.stored_function_id = cmd.fn,
                               !.running[cmd.fn] = cmd.in]
<1>1. /\ cfu.fsm = "WAIT_CMD" /\ cmd_valid
      /\ Cycle(FALSE, Nothing, rr, next)
  BY DEF Start
<1>2. cfu' = next /\ CpuEdge(FALSE, Nothing, rr)
  <2> HIDE DEF next
  <2>1. QED
    BY <1>1, ClocksHarmless
<1>3. cmd \in Commands /\ cmd.fn \in FunctionIds /\ cmd.in \in Operands
  BY <1>1 DEF cmd_valid, TypeOK, Commands
<1>4. /\ issued' = Append(issued, cmd) /\ answered' = answered
      /\ cmd' \in Commands \cup {NoCmd}
  BY <1>1, <1>2 DEF CpuEdge, NextCommands, cmd_ready
<1>5. clk' = "CFU_ENABLED"
  BY <1>1 DEF Cycle, ClockEdge, CpuWaits, TypeOK
<1>6. TypeOK'
  <2>1. /\ cfu'.fsm = "WAIT_INSTRUCTION" /\ cfu'.stored_function_id = cmd.fn
        /\ cfu'.stored_output = cfu.stored_output
        /\ cfu'.running = [cfu.running EXCEPT ![cmd.fn] = cmd.in]
        /\ cfu' = [fsm |-> cfu'.fsm, stored_function_id |-> cfu'.stored_function_id,
                   stored_output |-> cfu'.stored_output, running |-> cfu'.running]
    BY <1>2 DEF TypeOK
  <2>2. cfu'.running \in [FunctionIds -> Operands \cup {Nothing}]
    BY <2>1, <1>3 DEF TypeOK
  <2>3. QED
    BY <1>3, <1>4, <1>5, <2>1, <2>2 DEF TypeOK
<1>7. Len(issued') = Len(issued) + 1 /\ Last(issued)' = cmd
  BY <1>3, <1>4 DEF Last, TypeOK
<1>8. NothingLost' /\ StoresAnswer' /\ ClockFollows'
  BY <1>1, <1>2, <1>4, <1>5, <1>7 DEF NothingLost, StoresAnswer, ClockFollows, cmd_ready, TypeOK
<1>9. ExecutesLast'
  BY <1>1, <1>2, <1>3, <1>7 DEF ExecutesLast, TypeOK
<1>10. Protocol!Issue(cmd)
  BY <1>1, <1>4 DEF Protocol!Issue, NothingLost, cmd_ready
<1>11. QED
  BY <1>3, <1>6, <1>8, <1>9, <1>10 DEF Protocol!Next, Protocol!Commands, Commands


\* The registers after an instruction is found done, when no instruction that was
\* executing still is.
LEMMA FinishRegisters ==
  ASSUME IInv, NEW w \in Words, NEW rr \in BOOLEAN, NEW current,
         current \in [fsm : {"WAIT_CMD", "WAIT_INSTRUCTION", "WAIT_TRANSFER"},
                      stored_function_id : FunctionIds,
                      stored_output : Words \cup {Nothing},
                      running : [FunctionIds -> Operands \cup {Nothing}]],
         current.running = [f \in FunctionIds |-> Nothing],
         Finish(w, rr, current), cmd_ready => cmd_valid
  PROVE  /\ CpuEdge(TRUE, w, rr)
         /\ cfu'.running = [f \in FunctionIds |-> Nothing]
         /\ cfu'.fsm = IF rr THEN "WAIT_CMD" ELSE "WAIT_TRANSFER"
         /\ ~rr => cfu'.stored_output = w
         /\ cfu' \in [fsm : {"WAIT_CMD", "WAIT_INSTRUCTION", "WAIT_TRANSFER"},
                      stored_function_id : FunctionIds,
                      stored_output : Words \cup {Nothing},
                      running : [FunctionIds -> Operands \cup {Nothing}]]
         /\ clk' \in {"CPU_ENABLED", "CFU_ENABLED"}
         /\ clk' = "CPU_ENABLED" => cfu'.fsm = "WAIT_CMD"
<1> DEFINE next == IF rr THEN [current EXCEPT !.fsm = "WAIT_CMD"]
                   ELSE [current EXCEPT !.fsm = "WAIT_TRANSFER", !.stored_output = w]
<1>1. Cycle(TRUE, w, rr, next)
  BY DEF Finish
<1>2. cfu' = next /\ CpuEdge(TRUE, w, rr)
  <2> HIDE DEF next
  <2>1. QED
    BY <1>1, ClocksHarmless
<1>3. /\ clk' \in {"CPU_ENABLED", "CFU_ENABLED"}
      /\ clk' = "CPU_ENABLED" => rr
  BY <1>1 DEF Cycle, ClockEdge, CpuWaits, IInv, TypeOK, ClockFollows
<1>4. QED
  BY <1>2, <1>3

\* An instruction done in its first cycle: the command is issued and, if the CPU
\* is ready, answered in the same step.
LEMMA StartAndFinishStep ==
  ASSUME IInv, NEW rr \in BOOLEAN, StartAndFinish(rr)
  PROVE  IInv' /\ [Protocol!Next]_(Protocol!vars)
<1> USE DEF IInv
<1> DEFINE current == [cfu EXCEPT !.stored_function_id = cmd.fn]
<1>1. cfu.fsm = "WAIT_CMD" /\ cmd_valid
  BY DEF StartAndFinish
<1>2. cmd \in Commands /\ cmd.fn \in FunctionIds /\ cmd.in \in Operands
  BY <1>1 DEF cmd_valid, TypeOK, Commands
<1>3. PICK w \in Outputs[cmd.fn][cmd.in] : Finish(w, rr, current)
  BY DEF StartAndFinish
<1>4. w \in Words
  BY <1>2, AnswersAreWords
<1>5. /\ current.running = [f \in FunctionIds |-> Nothing]
      /\ current \in [fsm : {"WAIT_CMD", "WAIT_INSTRUCTION", "WAIT_TRANSFER"},
                      stored_function_id : FunctionIds,
                      stored_output : Words \cup {Nothing},
                      running : [FunctionIds -> Operands \cup {Nothing}]]
  BY <1>1, <1>2 DEF TypeOK, ExecutesLast
<1>6. /\ CpuEdge(TRUE, w, rr)
      /\ cfu'.running = [f \in FunctionIds |-> Nothing]
      /\ cfu'.fsm = IF rr THEN "WAIT_CMD" ELSE "WAIT_TRANSFER"
      /\ ~rr => cfu'.stored_output = w
      /\ cfu' \in [fsm : {"WAIT_CMD", "WAIT_INSTRUCTION", "WAIT_TRANSFER"},
                   stored_function_id : FunctionIds,
                   stored_output : Words \cup {Nothing},
                   running : [FunctionIds -> Operands \cup {Nothing}]]
      /\ clk' \in {"CPU_ENABLED", "CFU_ENABLED"}
      /\ clk' = "CPU_ENABLED" => cfu'.fsm = "WAIT_CMD"
  <2> HIDE DEF current
  <2>1. QED
    BY <1>1, <1>3, <1>4, <1>5, FinishRegisters
<1>7. /\ issued' = Append(issued, cmd)
      /\ answered' = IF rr THEN Append(answered, w) ELSE answered
      /\ cmd' \in Commands \cup {NoCmd}
  BY <1>1, <1>6 DEF CpuEdge, NextCommands, cmd_ready
<1>8. TypeOK'
  BY <1>2, <1>4, <1>6, <1>7 DEF TypeOK
<1>9. Len(issued') = Len(issued) + 1 /\ Last(issued)' = cmd
  BY <1>2, <1>7 DEF Last, TypeOK
<1>10. NothingLost'
  <2>1. Len(issued) = Len(answered) /\ Len(answered) \in Nat
    BY <1>1 DEF NothingLost, cmd_ready, TypeOK
  <2>2. Len(answered') = IF rr THEN Len(answered) + 1 ELSE Len(answered)
    BY <1>4, <1>7 DEF TypeOK
  <2>3. Len(issued') = Len(answered') + IF rr THEN 0 ELSE 1
    BY <1>9, <2>1, <2>2
  <2>4. QED
    BY <1>6, <2>3 DEF NothingLost, cmd_ready
<1>11. ExecutesLast' /\ StoresAnswer' /\ ClockFollows'
  BY <1>6, <1>9 DEF ExecutesLast, StoresAnswer, ClockFollows, cmd_ready
<1>12. Len(issued) = Len(answered)
  BY <1>1 DEF NothingLost, cmd_ready, TypeOK
<1>13. CASE rr
  <2>1. Protocol!IssueAnswered(cmd, w)
    BY <1>7, <1>12, <1>13 DEF Protocol!IssueAnswered, Protocol!AnswersOf
  <2>2. QED
    BY <2>1, <1>2, <1>4, <1>8, <1>10, <1>11 DEF Protocol!Next, Protocol!Commands, Commands
<1>14. CASE ~rr
  <2>1. Protocol!Issue(cmd)
    BY <1>7, <1>12, <1>14 DEF Protocol!Issue
  <2>2. QED
    BY <2>1, <1>2, <1>8, <1>10, <1>11 DEF Protocol!Next, Protocol!Commands, Commands
<1>15. QED
  BY <1>13, <1>14

\* What the CPU and the protocol make of a cycle that answers the last command.
LEMMA AnswerStep ==
  ASSUME IInv, NEW w \in Words, NEW rr \in BOOLEAN, ~cmd_ready, CpuEdge(TRUE, w, rr),
         w \in Outputs[Last(issued).fn][Last(issued).in]
  PROVE  /\ issued' = issued /\ cmd' \in Commands \cup {NoCmd}
         /\ answered' \in Seq(Words)
         /\ Len(issued') = Len(answered') + IF rr THEN 0 ELSE 1
         /\ [Protocol!Next]_(Protocol!vars)
<1> USE DEF IInv
<1>1. issued' = issued /\ cmd' \in Commands \cup {NoCmd}
  BY DEF CpuEdge, NextCommands, TypeOK
<1>2. answered' = IF rr THEN Append(answered, w) ELSE answered
  BY DEF CpuEdge
<1>3. Len(issued) = Len(answered) + 1
  BY DEF NothingLost
<1>4. answered' \in Seq(Words) /\ Len(issued') = Len(answered') + IF rr THEN 0 ELSE 1
  BY <1>1, <1>2, <1>3 DEF TypeOK
<1>5. rr => Protocol!Answer(w)
  BY <1>1, <1>2, <1>3 DEF Protocol!Answer, Protocol!AnswersOf, Last
<1>6. ~rr => UNCHANGED Protocol!vars
  BY <1>1, <1>2 DEF Protocol!vars
<1>7. QED
  BY <1>1, <1>4, <1>5, <1>6 DEF Protocol!Next

LEMMA FinishInstructionStep ==
  ASSUME IInv, NEW rr \in BOOLEAN, FinishInstruction(rr)
  PROVE  IInv' /\ [Protocol!Next]_(Protocol!vars)
<1> USE DEF IInv
<1> DEFINE f == cfu.stored_function_id
           current == [cfu EXCEPT !.running[f] = Nothing]
<1>1. cfu.fsm = "WAIT_INSTRUCTION" /\ cfu.running[f] # Nothing
  BY DEF FinishInstruction
<1>2. PICK w \in Outputs[f][cfu.running[f]] : Finish(w, rr, current)
  BY DEF FinishInstruction
<1>3. f \in FunctionIds /\ cfu.running[f] \in Operands
  BY <1>1 DEF TypeOK
<1>4. w \in Words
  BY <1>2, <1>3, AnswersAreWords
<1>5. f = Last(issued).fn /\ cfu.running[f] = Last(issued).in
  BY <1>1, <1>3 DEF ExecutesLast
<1>6. /\ current.running = [cfu.running EXCEPT ![f] = Nothing]
      /\ current = [fsm |-> cfu.fsm, stored_function_id |-> f,
                    stored_output |-> cfu.stored_output,
                    running |-> [cfu.running EXCEPT ![f] = Nothing]]
  BY DEF TypeOK
<1>7. current.running = [g \in FunctionIds |-> Nothing]
  BY <1>1, <1>6 DEF ExecutesLast
<1>8. current \in [fsm : {"WAIT_CMD", "WAIT_INSTRUCTION", "WAIT_TRANSFER"},
                   stored_function_id : FunctionIds,
                   stored_output : Words \cup {Nothing},
                   running : [FunctionIds -> Operands \cup {Nothing}]]
  BY <1>6, <1>7, <1>3 DEF TypeOK
<1>9. ~cmd_ready
  BY <1>1 DEF cmd_ready
<1>10. /\ CpuEdge(TRUE, w, rr)
       /\ cfu'.running = [g \in FunctionIds |-> Nothing]
       /\ cfu'.fsm = IF rr THEN "WAIT_CMD" ELSE "WAIT_TRANSFER"
       /\ ~rr => cfu'.stored_output = w
       /\ cfu' \in [fsm : {"WAIT_CMD", "WAIT_INSTRUCTION", "WAIT_TRANSFER"},
                    stored_function_id : FunctionIds,
                    stored_output : Words \cup {Nothing},
                    running : [FunctionIds -> Operands \cup {Nothing}]]
       /\ clk' \in {"CPU_ENABLED", "CFU_ENABLED"}
       /\ clk' = "CPU_ENABLED" => cfu'.fsm = "WAIT_CMD"
  <2> HIDE DEF current
  <2>1. QED
    BY <1>2, <1>4, <1>7, <1>8, <1>9, FinishRegisters
<1>11. /\ issued' = issued /\ cmd' \in Commands \cup {NoCmd}
       /\ answered' \in Seq(Words)
       /\ Len(issued') = Len(answered') + IF rr THEN 0 ELSE 1
       /\ [Protocol!Next]_(Protocol!vars)
  BY <1>2, <1>4, <1>5, <1>9, <1>10, AnswerStep
<1>12. TypeOK'
  BY <1>10, <1>11 DEF TypeOK
<1>13. NothingLost' /\ ClockFollows' /\ ExecutesLast'
  BY <1>10, <1>11 DEF NothingLost, ClockFollows, ExecutesLast, cmd_ready
<1>14. StoresAnswer'
  BY <1>2, <1>5, <1>10, <1>11 DEF StoresAnswer, Last
<1>15. QED
  BY <1>11, <1>12, <1>13, <1>14

LEMMA TransferStep ==
  ASSUME IInv, NEW rr \in BOOLEAN, Transfer(rr)
  PROVE  IInv' /\ [Protocol!Next]_(Protocol!vars)
<1> USE DEF IInv
<1> DEFINE w == cfu.stored_output
           next == IF rr THEN [cfu EXCEPT !.fsm = "WAIT_CMD"] ELSE cfu
<1>1. cfu.fsm = "WAIT_TRANSFER" /\ ~cmd_ready /\ Cycle(TRUE, w, rr, next)
  BY DEF Transfer, cmd_ready
<1>2. cfu' = next /\ CpuEdge(TRUE, w, rr)
  <2> HIDE DEF next, w
  <2>1. QED
    BY <1>1, ClocksHarmless
<1>3. Last(issued) \in Commands
  BY <1>1 DEF NothingLost, TypeOK, Last
<1>4. w \in Outputs[Last(issued).fn][Last(issued).in] /\ w \in Words
  BY <1>1, <1>3, AnswersAreWords DEF StoresAnswer, Commands
<1>5. /\ issued' = issued /\ cmd' \in Commands \cup {NoCmd}
      /\ answered' \in Seq(Words)
      /\ Len(issued') = Len(answered') + IF rr THEN 0 ELSE 1
      /\ [Protocol!Next]_(Protocol!vars)
  <2> HIDE DEF w
  <2>1. QED
    BY <1>1, <1>2, <1>4, AnswerStep
<1>6. /\ clk' \in {"CPU_ENABLED", "CFU_ENABLED"}
      /\ clk' # "CPU_ENABLED"
  BY <1>1 DEF Cycle, ClockEdge, CpuWaits, TypeOK, ClockFollows
<1>7. TypeOK'
  BY <1>2, <1>5, <1>6 DEF TypeOK
<1>8. NothingLost' /\ ExecutesLast' /\ StoresAnswer' /\ ClockFollows'
  BY <1>1, <1>2, <1>5, <1>6
     DEF NothingLost, ExecutesLast, StoresAnswer, ClockFollows, cmd_ready, TypeOK, Last
<1>9. QED
  BY <1>5, <1>7, <1>8

LEMMA ResetStep ==
  ASSUME Reset
  PROVE  IInv' /\ [Protocol!Next]_(Protocol!vars)
<1> USE ConstantsAssumption DEF Reset, ResetCfu
<1>1. TypeOK'
  BY DEF TypeOK
<1>2. NothingLost' /\ ExecutesLast' /\ StoresAnswer' /\ ClockFollows'
  BY DEF NothingLost, ExecutesLast, StoresAnswer, ClockFollows, cmd_ready
<1>3. Protocol!Reset
  BY DEF Protocol!Reset
<1>4. QED
  BY <1>1, <1>2, <1>3 DEF IInv, Protocol!Next

LEMMA NextStep ==
  ASSUME IInv, [Next]_vars
  PROVE  IInv' /\ [Protocol!Next]_(Protocol!vars)
<1>1. CASE Next
  BY <1>1, NoCommandStep, StartAndFinishStep, StartStep, ExecuteStep,
     FinishInstructionStep, TransferStep, ResetStep DEF Next, Tick
<1>2. CASE UNCHANGED vars
  BY <1>2 DEF vars, Protocol!vars, IInv, TypeOK, NothingLost, ExecutesLast, StoresAnswer,
              ClockFollows, cmd_ready, Last
<1>3. QED
  BY <1>1, <1>2

-----------------------------------------------------------------------------

\* The inductive invariant: an instruction executes the last command, a stored
\* word answers it, and a stopped CFU clock finds the CFU idle.
THEOREM Invariance == Spec => []IInv
<1>1. Init => IInv
  BY InitIInv
<1>2. IInv /\ [Next]_vars => IInv'
  BY NextStep
<1>3. QED
  BY <1>1, <1>2, PTL DEF Spec

\* Type correctness.
THEOREM TypeCorrect == Spec => []TypeOK
<1>1. IInv => TypeOK
  BY DEF IInv
<1>2. QED
  BY <1>1, Invariance, PTL

\* No command and no response is lost or taken twice, with either clock stopped.
THEOREM NothingIsLost == Spec => []NothingLost
<1>1. IInv => NothingLost
  BY DEF IInv
<1>2. QED
  BY <1>1, Invariance, PTL

\* The CFU's clock is never stopped while an instruction or a response is pending.
THEOREM CfuStopsIdle == Spec => []CfuStopsOnlyIdle
<1>1. IInv => CfuStopsOnlyIdle
  BY DEF IInv, ClockFollows, ExecutesLast, CfuStopsOnlyIdle, cfu_cen, cmd_ready
<1>2. QED
  BY <1>1, Invariance, PTL

\* Every step of the CFU is a step of the protocol the CPU relies on, or changes
\* nothing the CPU can observe.
THEOREM RefinesProtocol == Spec => Protocol!Init /\ [][Protocol!Next]_(Protocol!vars)
<1>1. Init => Protocol!Init
  BY DEF Init, Protocol!Init
<1>2. IInv /\ [Next]_vars => [Protocol!Next]_(Protocol!vars)
  BY NextStep
<1>3. QED
  BY <1>1, <1>2, Invariance, PTL DEF Spec

\* A response the CPU did not take is offered again in the next cycle: only being
\* taken, or a reset, changes the registers of a CFU in WAIT_TRANSFER.
LEMMA TransferHolds ==
  ASSUME IInv, NEW rr \in BOOLEAN, Transfer(rr), answered' = answered
  PROVE  cfu' = cfu
<1> DEFINE w == cfu.stored_output
           next == IF rr THEN [cfu EXCEPT !.fsm = "WAIT_CMD"] ELSE cfu
<1>1. ~cmd_ready /\ Cycle(TRUE, w, rr, next)
  BY DEF Transfer, cmd_ready
<1>2. cfu' = next /\ CpuEdge(TRUE, w, rr)
  <2> HIDE DEF next, w
  <2>1. QED
    BY <1>1, ClocksHarmless
<1>3. rr => answered' = Append(answered, w)
  BY <1>2 DEF CpuEdge
<1>4. answered \in Seq(Words)
  BY DEF IInv, TypeOK
<1>5. Len(Append(answered, w)) = Len(answered) + 1 /\ Len(answered) \in Nat
  BY <1>4
<1>6. ~rr
  BY <1>3, <1>5
<1>7. QED
  BY <1>2, <1>6

\* A response the CPU has not taken stays on the wires unchanged (WAIT_TRANSFER).
THEOREM ResponseIsHeld == Spec => ResponseHeld
<1>1. ASSUME IInv, Next, cfu.fsm = "WAIT_TRANSFER", answered' = answered
      PROVE  cfu' = cfu \/ cfu' = ResetCfu
  <2>1. CASE Reset
    BY <2>1 DEF Reset
  <2>2. CASE Tick
    <3>1. PICK rr \in BOOLEAN : Transfer(rr)
      BY <1>1, <2>2 DEF Tick, NoCommand, StartAndFinish, Start, Execute, FinishInstruction
    <3>2. QED
      BY <1>1, <3>1, TransferHolds
  <2>3. QED
    BY <1>1, <2>1, <2>2 DEF Next
<1>2. IInv /\ [Next]_vars =>
        [cfu.fsm = "WAIT_TRANSFER" /\ answered' = answered => cfu' = cfu \/ cfu' = ResetCfu]_vars
  BY <1>1
<1>3. QED
  BY <1>2, Invariance, PTL DEF Spec, ResponseHeld
=============================================================================
