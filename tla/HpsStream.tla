----------------------------- MODULE HpsStream -----------------------------
(***************************************************************************)
(* The components of proj/hps_accel's stream library                       *)
(* (gateware/stream/): what a clock cycle makes of the registers of each,  *)
(* and the endpoint signals that they drive in that cycle.                 *)
(*                                                                         *)
(* An upstream's half of an endpoint is the item it presents, or None      *)
(* while its `valid` is low; the downstream's half is `ready`.  An item is *)
(* transferred in a cycle in which both are there.  A register with a flag *)
(* beside it that says whether it is in use is the item or None.           *)
(***************************************************************************)
EXTENDS Naturals, Sequences

CONSTANT None

\* Endpoint.is_transferring.
is_transferring(offer, ready) == offer # None /\ ready

-----------------------------------------------------------------------------
(* Buffer: one item, in a register only while nobody takes it.             *)

Buffer_ready(held, output_ready) == held = None \/ output_ready

Buffer_output(held, input) == IF held # None THEN held ELSE input

\* Mutant: an item that arrives while the held one leaves is forgotten.
Buffer_next_forgets(held, input, output_ready, reset) ==
  IF reset \/ output_ready THEN None ELSE IF held = None THEN input ELSE held

Buffer_next(held, input, output_ready, reset) ==
  IF reset THEN None
  ELSE IF held = None THEN (IF output_ready THEN None ELSE input)
  ELSE IF output_ready THEN input ELSE held

-----------------------------------------------------------------------------
(* ConcatenatingBuffer: one item of every input stream makes an item of    *)
(* the output stream; those that come early are held.                      *)

Concat_payload(held, inputs) ==
  [name \in DOMAIN held |-> IF held[name] # None THEN held[name] ELSE inputs[name]]

Concat_output(held, inputs) ==
  LET payload == Concat_payload(held, inputs)
  IN  IF \A name \in DOMAIN held : payload[name] # None THEN payload ELSE None

Concat_transfers(held, inputs, output_ready) ==
  is_transferring(Concat_output(held, inputs), output_ready)

Concat_ready(held, inputs, output_ready, name) ==
  held[name] = None \/ Concat_transfers(held, inputs, output_ready)

\* Mutant: what is offered is dropped as if it were taken.
Concat_next_unheld(held, inputs, output_ready, reset) ==
  LET offers == Concat_output(held, inputs) # None
  IN  [name \in DOMAIN held |->
         IF reset THEN None
         ELSE IF held[name] = None THEN (IF offers THEN None ELSE inputs[name])
         ELSE IF offers THEN inputs[name] ELSE held[name]]

Concat_next(held, inputs, output_ready, reset) ==
  LET transfers == Concat_transfers(held, inputs, output_ready)
  IN  [name \in DOMAIN held |->
         IF reset THEN None
         ELSE IF held[name] = None THEN (IF transfers THEN None ELSE inputs[name])
         ELSE IF transfers THEN inputs[name] ELSE held[name]]

-----------------------------------------------------------------------------
(* FlowRestrictor: lets as many items pass as it was told, then waits to   *)
(* be told again.                                                          *)

Flow_ready(release_counter, output_ready) == release_counter > 0 /\ output_ready

Flow_output(release_counter, input) == IF release_counter > 0 THEN input ELSE None

\* `release` is a number of items, or None.
Flow_next(release_counter, input, output_ready, release) ==
  IF release_counter > 0
  THEN IF is_transferring(input, output_ready) THEN release_counter - 1 ELSE release_counter
  ELSE IF release # None THEN release ELSE 0

-----------------------------------------------------------------------------
(* ByteToWord: the bytes of the next word, in as many states as there can  *)
(* be, and the word that waits to be sent.                                 *)

EmptyGearbox == [bytes |-> <<>>, word |-> None]

\* Mutant: the last state does not raise ready.
Word_ready_but_last(g) == Len(g.bytes) < 3

Word_ready(g) == Len(g.bytes) < 3 \/ g.word = None

Word_next(g, input, output_ready) ==
  LET accepted == is_transferring(input, Word_ready(g))
      complete == accepted /\ Len(g.bytes) = 3
  IN  [bytes |-> IF complete THEN <<>> ELSE IF accepted THEN Append(g.bytes, input) ELSE g.bytes,
       word  |-> IF complete THEN Append(g.bytes, input)
                 ELSE IF is_transferring(g.word, output_ready) THEN None ELSE g.word]

-----------------------------------------------------------------------------
(* StreamFifo on SyncFIFOBuffered: items pass through a register on their  *)
(* way out.                                                                *)

EmptyFifo == [items |-> <<>>, out |-> None]

w_rdy(f, depth) == Len(f.items) < depth - 1

Fifo(f, depth, w_en, w_data, r_en) ==
  LET moves == f.items # <<>> /\ (f.out = None \/ r_en)
      kept  == IF moves THEN Tail(f.items) ELSE f.items
  IN  [items |-> IF w_en /\ w_rdy(f, depth) THEN Append(kept, w_data) ELSE kept,
       out |-> IF moves THEN Head(f.items) ELSE IF r_en THEN None ELSE f.out]

StreamFifo(f, depth, input, output_ready) ==
  Fifo(f, depth, input # None, input, output_ready)

-----------------------------------------------------------------------------
(* What the components hold, the oldest item first.                        *)

Transferred(offer, ready) == IF is_transferring(offer, ready) THEN <<offer>> ELSE <<>>

Held(item) == IF item = None THEN <<>> ELSE <<item>>

FifoContents(f) == Held(f.out) \o f.items
=============================================================================
