-------------------------- MODULE InputStoreSetter --------------------------
(***************************************************************************)
(* InputStoreSetter of proj/mnv2_first/gateware/store.py in front of the   *)
(* input store: the instruction CFU_STORE_INPUT_VALUE, which the CPU waits *)
(* for until the setter is done.                                           *)
(***************************************************************************)
EXTENDS InputStore

VARIABLES
  waiting,  \* the setter's register
  storing   \* the word of the instruction the CPU waits for, or NoWord

setterVars == <<vars, waiting, storing>>

SetterInit == Init /\ waiting = FALSE /\ storing = NoWord

\* A cycle in which the CPU issues the instruction: it is done at once if the
\* store is ready.
StoreStart(word, r_next, r_finished) ==
  /\ storing = NoWord
  /\ Cycle(w_ready, word, r_next, r_finished)
  /\ waiting' = (waiting \/ ~w_ready)
  /\ storing' = IF w_ready THEN NoWord ELSE word

\* Any other cycle, in which an instruction may still be waiting to be done.
StoreWait(r_next, r_finished) ==
  /\ Cycle(waiting /\ ~w_ready, storing, r_next, r_finished)
  /\ UNCHANGED waiting
  /\ storing' = IF waiting /\ ~w_ready THEN NoWord ELSE storing

SetterNext ==
  \/ \E word \in Words, r_next, r_finished \in BOOLEAN : StoreStart(word, r_next, r_finished)
  \/ \E r_next, r_finished \in BOOLEAN : StoreWait(r_next, r_finished)
  \/ storing = NoWord /\ (Restart \/ \E d \in Depths : SetDepth(d)) /\ UNCHANGED <<waiting, storing>>

SetterSpec == SetterInit /\ [][SetterNext]_setterVars

-----------------------------------------------------------------------------
(* Properties                                                              *)

\* src/proj/mnv2_first/src/software_cfu.cc:160 says of a store that finds both
\* buffers full: "in gateware, this will be a stall".  So an instruction that
\* had to wait is done only in a cycle in which the store accepts its word.
StoreStalls ==
  [][storing # NoWord /\ storing' = NoWord => w' # w]_setterVars
=============================================================================
