---------------------------- MODULE CfuProtocol ----------------------------
(***************************************************************************)
(* What the CPU relies on at the CPU/CFU boundary, with no cycle, wire or  *)
(* clock in it: commands are answered one at a time, in the order in which *)
(* they were issued, each with a word the addressed instruction can        *)
(* produce for the operands the command carried.                           *)
(***************************************************************************)
EXTENDS Naturals, Sequences

CONSTANTS
  FunctionIds,  \* the values of funct3
  Operands,     \* the operand pairs a command carries
  Words,        \* the words an instruction can return
  Outputs       \* Outputs[f][x]: what function f may return for operands x

VARIABLES
  issued,       \* the commands the CFU has accepted since the last reset
  answered      \* the words the CPU has received since the last reset

vars == <<issued, answered>>

Commands == [fn : FunctionIds, in : Operands]

AnswersOf(c) == Outputs[c.fn][c.in]

Init == issued = <<>> /\ answered = <<>>

Issue(c) ==
  /\ Len(issued) = Len(answered)
  /\ issued' = Append(issued, c)
  /\ UNCHANGED answered

Answer(w) ==
  /\ Len(issued) = Len(answered) + 1
  /\ w \in AnswersOf(issued[Len(issued)])
  /\ answered' = Append(answered, w)
  /\ UNCHANGED issued

\* A combinational instruction answers in the cycle that accepts its command.
IssueAnswered(c, w) ==
  /\ Len(issued) = Len(answered)
  /\ w \in AnswersOf(c)
  /\ issued' = Append(issued, c)
  /\ answered' = Append(answered, w)

Reset == issued' = <<>> /\ answered' = <<>>

Next ==
  \/ \E c \in Commands : Issue(c)
  \/ \E w \in Words : Answer(w)
  \/ \E c \in Commands, w \in Words : IssueAnswered(c, w)
  \/ Reset

\* The CFU owes the CPU an answer to a command it has accepted.
Spec == Init /\ [][Next]_vars /\ WF_vars(\E w \in Words : Answer(w))
=============================================================================
