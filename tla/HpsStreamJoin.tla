--------------------------- MODULE HpsStreamJoin ---------------------------
(***************************************************************************)
(* The components of HpsStream joined, as streams are meant to be, by      *)
(* connecting endpoints: bytes go through a ByteToWord and a Buffer, tags  *)
(* through a FlowRestrictor; a ConcatenatingBuffer pairs words and tags,   *)
(* and a StreamFifo holds the pairs until they are taken.                  *)
(*                                                                         *)
(* An action is a cycle, with what the surroundings do in it: a producer    *)
(* may withdraw what was not accepted, the consumer may stop at any time,  *)
(* and the reset inputs of the two buffers may be raised.                  *)
(***************************************************************************)
EXTENDS HpsStream

CONSTANTS
  FifoDepth,  \* places of the StreamFifo
  Bytes,      \* bound: bytes are numbered modulo this number
  Tags,       \* bound: and so are tags
  Releases    \* bound: the numbers given to the FlowRestrictor; 0 is as good as none

ASSUME StreamAssumption ==
  /\ FifoDepth \in Nat \ {0, 1} /\ Bytes \in Nat \ {0} /\ Tags \in Nat \ {0}
  /\ Releases \subseteq Nat
  /\ None \notin Nat /\ None \notin Seq(Nat) /\ None \notin [word : Seq(Nat), tag : Nat]

VARIABLES
  gearbox,  \* ByteToWord
  buffer,   \* Buffer
  counter,  \* FlowRestrictor
  joint,    \* ConcatenatingBuffer
  fifo,     \* StreamFifo
  made,     \* the numbers of the byte and the tag to be offered next
  last      \* of the last cycle: what the two buffers offered and could not pass
            \* on, the pair the consumer took, and whether there was a reset

vars == <<gearbox, buffer, counter, joint, fifo, made, last>>

Init ==
  /\ gearbox = EmptyGearbox
  /\ buffer = None
  /\ counter = 0
  /\ joint = [word |-> None, tag |-> None]
  /\ fifo = EmptyFifo
  /\ made = [byte |-> 0, tag |-> 0]
  /\ last = [word |-> None, pair |-> None, taken |-> None, reset |-> FALSE]

-----------------------------------------------------------------------------
(* The endpoints between the components.                                   *)

fifo_ready == w_rdy(fifo, FifoDepth)

buffer_output == Buffer_output(buffer, gearbox.word)

joint_inputs(tag) == [word |-> buffer_output, tag |-> Flow_output(counter, tag)]

joint_output(tag) == Concat_output(joint, joint_inputs(tag))

joint_ready(name, tag) == Concat_ready(joint, joint_inputs(tag), fifo_ready, name)

byte_accepted(byte) == is_transferring(byte, Word_ready(gearbox))

tag_accepted(tag) == is_transferring(tag, Flow_ready(counter, joint_ready("tag", tag)))

pair_taken(ready) == is_transferring(fifo.out, ready)

-----------------------------------------------------------------------------

Cycle(byte, tag, release, ready, reset) ==
  /\ gearbox' = Word_next(gearbox, byte, Buffer_ready(buffer, joint_ready("word", tag)))
  /\ buffer' = Buffer_next(buffer, gearbox.word, joint_ready("word", tag), reset)
  /\ counter' = Flow_next(counter, tag, joint_ready("tag", tag), release)
  /\ joint' = Concat_next(joint, joint_inputs(tag), fifo_ready, reset)
  /\ fifo' = StreamFifo(fifo, FifoDepth, joint_output(tag), ready)
  /\ made' = [byte |-> IF byte_accepted(byte) THEN (made.byte + 1) % Bytes ELSE made.byte,
              tag  |-> IF tag_accepted(tag) THEN (made.tag + 1) % Tags ELSE made.tag]
  /\ last' = [word  |-> IF reset \/ joint_ready("word", tag) THEN None ELSE buffer_output,
              pair  |-> IF reset \/ fifo_ready THEN None ELSE joint_output(tag),
              taken |-> IF pair_taken(ready) THEN fifo.out ELSE None,
              reset |-> reset]

Offered(number) == {number, None}

\* While the FlowRestrictor is not ready for a release, none is transferred.
Requests == IF counter = 0 THEN Releases ELSE {None}

Clocked(reset) ==
  \E byte \in Offered(made.byte), tag \in Offered(made.tag), release \in Requests, ready \in BOOLEAN :
    Cycle(byte, tag, release, ready, reset)

Next == \E reset \in BOOLEAN : Clocked(reset)

\* Surroundings that never give up, though each at a pace of its own: the clock runs,
\* and no reset is needed for it to; bytes that would be accepted again and again are
\* offered again and again, and so are tags; pairs are taken again and again; not all
\* releases are releases of none.
\* (Strong fairness of the cycles in which a byte goes in, a tag goes in, ...)
Flowing ==
  /\ WF_vars(Clocked(FALSE))
  /\ <>[]~Word_ready(gearbox) \/ []<><<made'.byte # made.byte>>_vars
  /\ <>[]~tag_accepted(made.tag) \/ []<><<made'.tag # made.tag>>_vars
  /\ <>[]~pair_taken(TRUE) \/ []<><<last'.taken # None>>_vars
  /\ <>[](counter > 0) \/ []<><<counter' > counter>>_vars

Spec == Init /\ [][Next]_vars /\ Flowing

-----------------------------------------------------------------------------
(* Properties                                                              *)

\* The joined components do what PairedStreams says, cycle by cycle, whatever the
\* producers and the consumer do and whenever they do it (stream/__init__.py: "A
\* transfer takes place when both of the valid and ready signals are asserted").
Paired == INSTANCE PairedStreams WITH
  Bytes  <- 0 .. Bytes - 1,
  Tags   <- 0 .. Tags - 1,
  part   <- gearbox.bytes,
  words  <- Held(joint.word) \o Held(buffer) \o Held(gearbox.word),
  tags   <- Held(joint.tag),
  pairs  <- FifoContents(fifo),
  credit <- counter,
  taken  <- last.taken

ImplementsPairedStreams == Paired!Spec

\* What a buffer offers it offers until it is taken: what could not be passed on is
\* offered in the next cycle too, whatever the producers offer then, so that a
\* consumer may rely on what it saw (Buffer and ConcatenatingBuffer in buffer.py).
OffersKept ==
  /\ last.word # None => Buffer_output(buffer, None) = last.word
  /\ last.pair # None => Concat_output(joint, [word |-> None, tag |-> None]) = last.pair

\* If the buffers are not reset for ever, pairs come out for ever.
PairsFlow == <>[](~last.reset) => []<>(last.taken # None)
=============================================================================
