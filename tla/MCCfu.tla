------------------------------- MODULE MCCfu -------------------------------
(***************************************************************************)
(* A CFU with one project instruction of each kind the code has and the    *)
(* fallback: function 0 may answer at once or later and may return either  *)
(* of two words; function 1 returns its operand tagged; 2 is not           *)
(* implemented and falls back.                                             *)
(***************************************************************************)
EXTENDS Cfu

CONSTANTS x, y

MCFunctionIds == 0 .. 2
MCImplemented == {0, 1}
MCOperands == {x, y}
MCOutputs ==
  [f \in MCFunctionIds |-> [o \in MCOperands |->
     CASE f = 0 -> {<<"a", o>>, <<"b", o>>}
       [] f = 1 -> {<<"c", o>>}
       [] OTHER -> {o}]]
=============================================================================
