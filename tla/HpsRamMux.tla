----------------------------- MODULE HpsRamMux -----------------------------
(***************************************************************************)
(* gen2/ram_mux.py: four ports on four RAMs of one word per address.  In a *)
(* phase every port is connected to another RAM; the data of an address    *)
(* arrive a cycle later, through the connections of that cycle's phase.    *)
(***************************************************************************)
EXTENDS Integers

VARIABLE ram  \* the addresses the RAMs were given, and last_phase

Ports == 0 .. 3

InitMux == ram = [addr |-> [k \in Ports |-> 0], phase |-> 0]

\* In this phase, RAM k serves this port, and port k this RAM.
Partner(phase, k) == (phase - k) % 4

Multiplex(ports) ==
  ram' = [addr |-> [k \in Ports |-> ports.addr[Partner(ports.phase, k)]], phase |-> ports.phase]
=============================================================================
