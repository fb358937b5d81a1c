-------------------------- MODULE HpsStreamProofs --------------------------
(***************************************************************************)
(* That the stream components lose, repeat and reorder nothing, for items  *)
(* of every kind and whatever their neighbours do in a cycle: an equation  *)
(* between queues for each of them,                                        *)
(*                                                                         *)
(*   what was held, then what came in                                      *)
(*         =  what went out, then what is held afterwards.                 *)
(*                                                                         *)
(* and that joined they implement PairedStreams.                           *)
(***************************************************************************)
EXTENDS HpsStreamJoin, SequenceTheorems, TLAPS

\* The equation.
Conserves(held, came, went, left) == held \o came = went \o left

\* The empty sequence changes nothing.
LEMMA Nothing ==
  ASSUME NEW x
  PROVE  /\ <<x>> \o <<>> = <<x>> /\ <<>> \o <<x>> = <<x>>
         /\ <<>> \o <<>> = <<>>
<1>1. <<x>> \in Seq({x}) /\ <<>> \in Seq({x})
  BY SMT
<1> QED
  BY <1>1, ConcatEmptySeq

\* Buffer (stream/buffer.py): an item passes through, is held or follows the held one.
THEOREM BufferConserves ==
  ASSUME NEW held, NEW input, NEW ready \in BOOLEAN
  PROVE  Conserves(Held(held), Transferred(input, Buffer_ready(held, ready)),
                   Transferred(Buffer_output(held, input), ready),
                   Held(Buffer_next(held, input, ready, FALSE)))
<1> USE DEF Conserves, Held, Transferred, is_transferring, Buffer_ready, Buffer_output, Buffer_next
<1>1. CASE held = None /\ ready
  BY <1>1, Nothing
<1>2. CASE held = None /\ ~ready
  BY <1>2, Nothing
<1>3. CASE held # None /\ ready
  BY <1>3, Nothing
<1>4. CASE held # None /\ ~ready
  BY <1>4, Nothing
<1> QED
  BY <1>1, <1>2, <1>3, <1>4

\* ConcatenatingBuffer (stream/buffer.py), for each of its inputs, as many as there are:
\* an item of the output is made of the next item of every input.
THEOREM ConcatConserves ==
  ASSUME NEW Names, NEW held, DOMAIN held = Names, NEW inputs, NEW ready \in BOOLEAN,
         NEW name \in Names
  PROVE  Conserves(Held(held[name]),
                   Transferred(inputs[name], Concat_ready(held, inputs, ready, name)),
                   IF Concat_transfers(held, inputs, ready)
                   THEN <<Concat_payload(held, inputs)[name]>> ELSE <<>>,
                   Held(Concat_next(held, inputs, ready, FALSE)[name]))
<1> DEFINE transfers == Concat_transfers(held, inputs, ready)
           payload == Concat_payload(held, inputs)
           next == Concat_next(held, inputs, ready, FALSE)[name]
<1>1. payload[name] = IF held[name] # None THEN held[name] ELSE inputs[name]
  BY DEF Concat_payload
<1>2. transfers => payload[name] # None
  BY DEF Concat_transfers, Concat_output, is_transferring
<1>3. next = IF held[name] = None THEN (IF transfers THEN None ELSE inputs[name])
             ELSE IF transfers THEN inputs[name] ELSE held[name]
  BY DEF Concat_next
<1>4. Concat_ready(held, inputs, ready, name) = (held[name] = None \/ transfers)
  BY DEF Concat_ready
<1>5. transfers \in BOOLEAN
  BY DEF Concat_transfers, is_transferring
<1> HIDE DEF transfers, payload, next
<1> USE DEF Conserves, Held, Transferred, is_transferring
<1>6. CASE held[name] = None /\ transfers
  BY <1>1, <1>2, <1>3, <1>4, <1>6, Nothing DEF transfers, payload, next
<1>7. CASE held[name] = None /\ ~transfers
  BY <1>3, <1>4, <1>7, Nothing DEF transfers, payload, next
<1>8. CASE held[name] # None /\ transfers
  BY <1>1, <1>3, <1>4, <1>8, Nothing DEF transfers, payload, next
<1>9. CASE held[name] # None /\ ~transfers
  BY <1>3, <1>4, <1>9, Nothing DEF transfers, payload, next
<1> QED
  BY <1>5, <1>6, <1>7, <1>8, <1>9

\* FlowRestrictor (stream/flow.py): what goes in goes out in the same cycle, and is counted.
THEOREM FlowCounts ==
  ASSUME NEW counter_ \in Nat, NEW input, NEW ready \in BOOLEAN, NEW release \in Nat \cup {None},
         counter_ > 0
  PROVE  LET passed == Transferred(input, Flow_ready(counter_, ready))
         IN  /\ passed = Transferred(Flow_output(counter_, input), ready)
             /\ Flow_next(counter_, input, ready, release) = counter_ - Len(passed)
<1> USE DEF Transferred, is_transferring, Flow_ready, Flow_output, Flow_next
<1>1. Len(<<input>>) = 1 /\ Len(<<>>) = 0
  BY SMT
<1>2. CASE input # None /\ ready
  BY <1>1, <1>2, SMT
<1>3. CASE ~(input # None /\ ready)
  BY <1>1, <1>3, SMT
<1> QED
  BY <1>2, <1>3

GearboxContents(g) == (IF g.word = None THEN <<>> ELSE g.word) \o g.bytes

\* ByteToWord (stream/gearbox.py): a word is the bytes that came in before those that
\* are still to make one.
THEOREM GearboxConserves ==
  ASSUME NEW T, None \notin T, None \notin Seq(T),
         NEW bytes \in Seq(T), NEW word \in Seq(T) \cup {None}, Len(bytes) <= 3,
         NEW input \in T \cup {None}, NEW ready \in BOOLEAN
  PROVE  LET g == [bytes |-> bytes, word |-> word]
         IN  Conserves(GearboxContents(g), Transferred(input, Word_ready(g)),
                       IF is_transferring(word, ready) THEN word ELSE <<>>,
                       GearboxContents(Word_next(g, input, ready)))
<1> DEFINE g == [bytes |-> bytes, word |-> word]
           next == Word_next(g, input, ready)
           sent == IF word = None THEN <<>> ELSE word
<1> SUFFICES (sent \o bytes) \o Transferred(input, Word_ready(g))
               = (IF word # None /\ ready THEN word ELSE <<>>)
                   \o ((IF next.word = None THEN <<>> ELSE next.word) \o next.bytes)
  BY DEF Conserves, GearboxContents, is_transferring
<1>1. sent \in Seq(T) /\ <<>> \in Seq(T)
  BY SMT
<1>2. sent \o bytes \in Seq(T)
  BY <1>1, ConcatProperties
<1>3. ASSUME NEW x \in Seq(T), next.bytes = x,
             next.word = IF word # None /\ ready THEN None ELSE word
      PROVE  sent \o x = (IF word # None /\ ready THEN word ELSE <<>>)
                          \o ((IF next.word = None THEN <<>> ELSE next.word) \o next.bytes)
  <2>1. sent \o x \in Seq(T)
    BY <1>1, ConcatProperties
  <2>2. <<>> \o x = x /\ <<>> \o (sent \o x) = sent \o x
    BY <2>1, ConcatEmptySeq
  <2>3. CASE word = None
    BY <1>3, <2>2, <2>3
  <2>4. CASE word # None /\ ready
    BY <1>3, <2>2, <2>4
  <2>5. CASE word # None /\ ~ready
    BY <1>3, <2>2, <2>5
  <2> QED
    BY <2>3, <2>4, <2>5
<1>4. CASE input = None \/ ~Word_ready(g)
  <2>1. /\ next.bytes = bytes
        /\ next.word = IF word # None /\ ready THEN None ELSE word
        /\ Transferred(input, Word_ready(g)) = <<>>
    BY <1>4 DEF Word_next, is_transferring, Transferred
  <2>2. (sent \o bytes) \o <<>> = sent \o bytes
    BY <1>2, ConcatEmptySeq
  <2> QED
    BY <1>3, <2>1, <2>2
<1>5. CASE input # None /\ Word_ready(g)
  <2>0. input \in T /\ <<input>> \in Seq(T)
    BY <1>5, SMT
  <2>1. Transferred(input, Word_ready(g)) = <<input>>
    BY <1>5 DEF Transferred, is_transferring
  <2>2. Append(bytes, input) = bytes \o <<input>> /\ Append(bytes, input) \in Seq(T)
    BY <2>0, AppendIsConcat, AppendProperties
  <2>3. (sent \o bytes) \o <<input>> = sent \o Append(bytes, input)
    <3> HIDE DEF sent
    <3>1. (sent \o bytes) \o <<input>> = sent \o (bytes \o <<input>>)
      BY <1>1, <2>0, ConcatAssociative
    <3> QED
      BY <2>2, <3>1
  <2>4. CASE Len(bytes) = 3
    <3>1. word = None
      <4>1. ~(3 < 3)
        BY SMT
      <4> QED
        BY <1>5, <2>4, <4>1 DEF Word_ready
    <3>2. next.bytes = <<>> /\ next.word = Append(bytes, input) /\ next.word # None
      BY <1>5, <2>2, <2>4 DEF Word_next, is_transferring
    <3>3. sent = <<>>
      BY <3>1
    <3>4. <<>> \o Append(bytes, input) = Append(bytes, input)
            /\ Append(bytes, input) \o <<>> = Append(bytes, input)
      BY <2>2, ConcatEmptySeq
    <3> QED
      BY <2>1, <2>3, <3>1, <3>2, <3>3, <3>4
  <2>5. CASE Len(bytes) # 3
    <3>1. /\ next.bytes = Append(bytes, input)
          /\ next.word = IF word # None /\ ready THEN None ELSE word
      BY <1>5, <2>5 DEF Word_next, is_transferring
    <3> QED
      BY <1>3, <2>1, <2>2, <2>3, <3>1
  <2> QED
    BY <2>4, <2>5
<1> QED
  BY <1>4, <1>5

\* StreamFifo (stream/fifo.py), which HpsAccel's queues are as well: a queue, for every
\* depth, its head in a register of its own.
THEOREM FifoConserves ==
  ASSUME NEW T, None \notin T, NEW items \in Seq(T), NEW out \in T \cup {None},
         NEW depth \in Nat, NEW input \in T \cup {None}, NEW ready \in BOOLEAN
  PROVE  LET f == [items |-> items, out |-> out]
         IN  Conserves(FifoContents(f), Transferred(input, w_rdy(f, depth)),
                       Transferred(out, ready), FifoContents(StreamFifo(f, depth, input, ready)))
<1> DEFINE f == [items |-> items, out |-> out]
           moves == items # <<>> /\ (out = None \/ ready)
           kept == IF moves THEN Tail(items) ELSE items
           came == Transferred(input, w_rdy(f, depth))
           next == StreamFifo(f, depth, input, ready)
<1>1. <<>> \in Seq(T) /\ Held(out) \in Seq(T) /\ Transferred(out, ready) \in Seq(T) /\ came \in Seq(T)
  BY SMT DEF Held, Transferred, is_transferring
<1>2. kept \in Seq(T)
  BY HeadTailProperties
<1>3. next.items = kept \o came
  <2>1. CASE input # None /\ w_rdy(f, depth)
    <3>1. input \in T /\ came = <<input>> /\ next.items = Append(kept, input)
      BY <2>1 DEF Transferred, is_transferring, StreamFifo, Fifo
    <3> QED
      BY <3>1, <1>2, AppendIsConcat
  <2>2. CASE ~(input # None /\ w_rdy(f, depth))
    <3>1. came = <<>> /\ next.items = kept
      BY <2>2 DEF Transferred, is_transferring, StreamFifo, Fifo
    <3> QED
      BY <3>1, <1>2, ConcatEmptySeq
  <2> QED
    BY <2>1, <2>2
<1>4. next.out = IF moves THEN Head(items) ELSE IF ready THEN None ELSE out
  BY DEF StreamFifo, Fifo
<1>5. Held(out) \o items = Transferred(out, ready) \o (Held(next.out) \o kept)
  <2>1. CASE moves
    <3>1. Head(items) \in T /\ items = <<Head(items)>> \o Tail(items)
      BY <2>1, HeadTailProperties, SubSeqFull, SMT
    <3>2. Held(next.out) \o kept = items
      BY <1>4, <2>1, <3>1 DEF Held
    <3>3. Held(out) = Transferred(out, ready)
      BY <2>1 DEF Held, Transferred, is_transferring
    <3> QED
      BY <3>2, <3>3
  <2>2. CASE ~moves /\ ready
    <3>1. items = <<>> /\ kept = <<>>
      BY <2>2
    <3>2. Held(next.out) = <<>> /\ Held(out) = Transferred(out, ready)
      BY <1>4, <2>2 DEF Held, Transferred, is_transferring
    <3>3. <<>> \o <<>> = <<>>
      BY <1>1, ConcatEmptySeq
    <3> QED
      BY <3>1, <3>2, <3>3
  <2>3. CASE ~moves /\ ~ready
    <3>1. kept = items /\ next.out = out /\ Transferred(out, ready) = <<>>
      BY <1>4, <2>3 DEF Transferred, is_transferring
    <3>2. Held(out) \o items \in Seq(T)
      BY <1>1, ConcatProperties
    <3> QED
      BY <3>1, <3>2, ConcatEmptySeq
  <2> QED
    BY <2>1, <2>2, <2>3
<1>6. Held(next.out) \in Seq(T)
  BY <1>4, <1>1, HeadTailProperties, SMT DEF Held
<1>7. \A a, b, c \in Seq(T) : (a \o b) \o c = a \o (b \o c)
  BY ConcatAssociative
<1> HIDE DEF kept, came, next
<1>8. (Held(next.out) \o kept) \o came = Held(next.out) \o next.items
  BY <1>1, <1>2, <1>3, <1>6, <1>7
<1>9. Held(next.out) \o kept \in Seq(T)
  BY <1>2, <1>6, ConcatProperties
<1>10. (Held(out) \o items) \o came
        = Transferred(out, ready) \o ((Held(next.out) \o kept) \o came)
  <2> DEFINE a == Transferred(out, ready)
             b == Held(next.out) \o kept
  <2>1. (Held(out) \o items) \o came = (a \o b) \o came
    BY <1>5
  <2>2. a \in Seq(T) /\ b \in Seq(T) /\ came \in Seq(T)
    BY <1>1, <1>9
  <2> HIDE DEF a, b
  <2>3. (a \o b) \o came = a \o (b \o came)
    BY <2>2, <1>7
  <2> QED
    BY <2>1, <2>3 DEF a, b
<1>11. FifoContents(f) \o came = Transferred(out, ready) \o FifoContents(next)
  BY <1>8, <1>10 DEF FifoContents
<1> QED
  BY <1>11 DEF Conserves, next, came

-----------------------------------------------------------------------------
(* What is offered stays offered.                                          *)

\* A cycle of the joined components leaves what could not be passed on in the two
\* buffers' own registers.
LEMMA CycleKeepsOffers ==
  ASSUME NEW byte, NEW tag, NEW release, NEW ready \in BOOLEAN, NEW reset \in BOOLEAN,
         DOMAIN joint = {"word", "tag"},
         Cycle(byte, tag, release, ready, reset)
  PROVE  OffersKept' /\ DOMAIN joint' = {"word", "tag"}
<1> DEFINE inputs == joint_inputs(tag)
           nothing == [word |-> None, tag |-> None]
<1>1. DOMAIN joint' = {"word", "tag"}
  BY DEF Cycle, Concat_next
<1>2. last'.word # None => Buffer_output(buffer', None) = last'.word
  <2> SUFFICES ASSUME last'.word # None PROVE Buffer_output(buffer', None) = last'.word
    OBVIOUS
  <2>1. ~reset /\ ~joint_ready("word", tag) /\ last'.word = buffer_output /\ buffer_output # None
    BY DEF Cycle
  <2>2. buffer' = Buffer_next(buffer, gearbox.word, FALSE, FALSE)
    <3>1. joint_ready("word", tag) = FALSE
      BY <2>1 DEF joint_ready, Concat_ready, Concat_transfers, is_transferring
    <3> QED
      BY <2>1, <3>1 DEF Cycle
  <2> QED
    BY <2>1, <2>2 DEF Buffer_next, Buffer_output, buffer_output
<1>3. last'.pair # None => Concat_output(joint', nothing) = last'.pair
  <2> SUFFICES ASSUME last'.pair # None PROVE Concat_output(joint', nothing) = last'.pair
    OBVIOUS
  <2> DEFINE payload == Concat_payload(joint, inputs)
  <2>1. ~reset /\ ~fifo_ready /\ last'.pair = Concat_output(joint, inputs)
          /\ Concat_output(joint, inputs) # None
    BY DEF Cycle, joint_output
  <2>2. last'.pair = payload /\ \A name \in {"word", "tag"} : payload[name] # None
    BY <2>1 DEF Concat_output
  <2>3. ~Concat_transfers(joint, inputs, fifo_ready)
    BY <2>1 DEF Concat_transfers, is_transferring
  <2>4. \A name \in {"word", "tag"} : joint'[name] = payload[name]
    BY <2>1, <2>3 DEF Cycle, Concat_next, Concat_payload
  <2>5. Concat_payload(joint', nothing) = payload
    BY <1>1, <2>2, <2>4 DEF Concat_payload
  <2>6. \A name \in DOMAIN joint' : Concat_payload(joint', nothing)[name] # None
    BY <1>1, <2>2, <2>5
  <2> QED
    BY <2>2, <2>5, <2>6 DEF Concat_output
<1> QED
  BY <1>1, <1>2, <1>3 DEF OffersKept

\* Of Buffer and ConcatenatingBuffer: what is offered and not taken is offered again,
\* whatever comes in then.
THEOREM OffersAreKept == Spec => []OffersKept
<1> DEFINE Inv == OffersKept /\ DOMAIN joint = {"word", "tag"}
<1>1. Init => Inv
  BY DEF Init, OffersKept
<1>2. Inv /\ [Next]_vars => Inv'
  <2>1. CASE UNCHANGED vars
    BY <2>1 DEF vars, OffersKept
  <2>2. ASSUME Inv, Next PROVE Inv'
    BY <2>2, CycleKeepsOffers DEF Next, Clocked
  <2> QED
    BY <2>1, <2>2
<1> QED
  BY <1>1, <1>2, PTL DEF Spec

-----------------------------------------------------------------------------
(* The joined components implement PairedStreams.                          *)

\* The first item of a queue is the first item of what the queue is made longer to.
LEMMA FirstItem ==
  ASSUME NEW S, NEW s \in Seq(S), s # <<>>, NEW u \in Seq(S)
  PROVE  Head(s \o u) = Head(s) /\ Tail(s \o u) = Tail(s) \o u
<1>1. /\ s \o u \in Seq(S) /\ Len(s \o u) = Len(s) + Len(u)
      /\ \A i \in 1 .. Len(s) + Len(u) : (s \o u)[i] = IF i <= Len(s) THEN s[i] ELSE u[i - Len(s)]
  BY ConcatProperties
<1>2. Len(s) \in Nat \ {0} /\ Len(u) \in Nat
  BY EmptySeq, LenProperties
<1>3. Head(s \o u) = Head(s)
  BY <1>1, <1>2, SMT
<1>4. /\ Tail(s) \in Seq(S) /\ Len(Tail(s)) = Len(s) - 1
      /\ \A i \in 1 .. Len(Tail(s)) : Tail(s)[i] = s[i + 1]
  BY HeadTailProperties
<1>5. s \o u # <<>>
  BY <1>1, <1>2, SMT
<1>6. /\ Tail(s \o u) \in Seq(S) /\ Len(Tail(s \o u)) = Len(s \o u) - 1
      /\ \A i \in 1 .. Len(Tail(s \o u)) : Tail(s \o u)[i] = (s \o u)[i + 1]
  BY <1>1, <1>5, HeadTailProperties
<1>7. /\ Tail(s) \o u \in Seq(S) /\ Len(Tail(s) \o u) = Len(Tail(s)) + Len(u)
      /\ \A i \in 1 .. Len(Tail(s)) + Len(u) :
           (Tail(s) \o u)[i] = IF i <= Len(Tail(s)) THEN Tail(s)[i] ELSE u[i - Len(Tail(s))]
  BY <1>4, ConcatProperties
<1> DEFINE p == Tail(s \o u)
           q == Tail(s) \o u
           l == Len(s)
           n == Len(u)
<1>8. Len(p) = l + n - 1 /\ Len(q) = l + n - 1
  BY <1>1, <1>2, <1>4, <1>6, <1>7, SMT
<1>9. ASSUME NEW i \in 1 .. l + n - 1 PROVE p[i] = q[i]
  <2>1. p[i] = (s \o u)[i + 1] /\ i + 1 \in 1 .. l + n
    BY <1>2, <1>6, <1>8, SMT
  <2>2. CASE i + 1 <= l
    BY <2>1, <2>2, <1>1, <1>2, <1>4, <1>7, SMT
  <2>3. CASE ~(i + 1 <= l)
    BY <2>1, <2>3, <1>1, <1>2, <1>4, <1>7, SMT
  <2> QED
    BY <2>2, <2>3
<1>10. p = q
  <2>1. p \in Seq(S) /\ q \in Seq(S)
    BY <1>6, <1>7
  <2> HIDE DEF p, q, l, n
  <2> QED
    BY <2>1, <1>8, <1>9, SeqEqual
<1> QED
  BY <1>3, <1>10

\* What follows the first item of a queue, and what is added to it, are apart.
LEMMA DropFirst ==
  ASSUME NEW S, NEW s \in Seq(S), s # <<>>, NEW u \in Seq(S), NEW w \in S, NEW t \in Seq(S),
         Conserves(s, u, <<w>>, t)
  PROVE  Head(s) = w /\ Tail(s) \o u = t
<1>1. Head(s \o u) = Head(s) /\ Tail(s \o u) = Tail(s) \o u
  BY FirstItem
<1>2. <<w>> \in Seq(S) /\ <<w>> # <<>> /\ Head(<<w>>) = w /\ Tail(<<w>>) = <<>>
  BY SMT
<1>3. Head(<<w>> \o t) = Head(<<w>>) /\ Tail(<<w>> \o t) = Tail(<<w>>) \o t
  BY <1>2, FirstItem
<1>4. <<>> \o t = t
  BY ConcatEmptySeq
<1> QED
  BY <1>1, <1>2, <1>3, <1>4 DEF Conserves

\* What With adds to a queue.
LEMMA WithItem ==
  ASSUME NEW S, None \notin S, NEW q \in Seq(S), NEW item \in S \cup {None}
  PROVE  /\ Paired!With(q, item) = q \o Held(item)
         /\ Paired!With(q, item) \in Seq(S)
<1>1. CASE item = None
  BY <1>1, ConcatEmptySeq DEF Paired!With, Held
<1>2. CASE item # None
  BY <1>2, AppendIsConcat, AppendProperties DEF Paired!With, Held
<1> QED
  BY <1>1, <1>2

Word == Seq(Nat)

Pair == [word : Word, tag : Nat]

TypeInv ==
  /\ \E bytes \in Seq(Nat), word \in Word \cup {None} :
       gearbox = [bytes |-> bytes, word |-> word] /\ Len(bytes) <= 3
  /\ buffer \in Word \cup {None}
  /\ counter \in Nat
  /\ \E word \in Word \cup {None}, tag \in Nat \cup {None} : joint = [word |-> word, tag |-> tag]
  /\ \E items \in Seq(Pair), out \in Pair \cup {None} : fifo = [items |-> items, out |-> out]
  /\ made \in [byte : 0 .. Bytes - 1, tag : 0 .. Tags - 1]

\* The surroundings in a cycle.
Around(byte, tag, release, ready, reset) ==
  /\ byte \in Offered(made.byte) /\ tag \in Offered(made.tag) /\ release \in Requests
  /\ ready \in BOOLEAN /\ reset \in BOOLEAN

joins(tag) == Concat_transfers(joint, joint_inputs(tag), fifo_ready)

paired(tag) == Concat_payload(joint, joint_inputs(tag))

\* The wires between the components in a cycle.
LEMMA Wires ==
  ASSUME TypeInv, NEW byte, NEW tag, NEW release, NEW ready, NEW reset,
         Around(byte, tag, release, ready, reset)
  PROVE  /\ byte \in Nat \cup {None} /\ tag \in Nat \cup {None}
         /\ DOMAIN joint = {"word", "tag"}
         /\ gearbox.bytes \in Seq(Nat) /\ Len(gearbox.bytes) <= 3
         /\ gearbox.word \in Word \cup {None}
         /\ joint.word \in Word \cup {None} /\ joint.tag \in Nat \cup {None}
         /\ buffer_output \in Word \cup {None}
         /\ joint_inputs(tag).word = buffer_output
         /\ joint_inputs(tag).tag = IF counter > 0 THEN tag ELSE None
         /\ joins(tag) \in BOOLEAN
         /\ fifo_ready \in BOOLEAN
         /\ paired(tag) = [word |-> IF joint.word # None THEN joint.word ELSE buffer_output,
                           tag  |-> IF joint.tag # None THEN joint.tag ELSE joint_inputs(tag).tag]
         /\ joint_output(tag) \in Pair \cup {None}
         /\ joint_output(tag) = IF paired(tag).word # None /\ paired(tag).tag # None
                                THEN paired(tag) ELSE None
         /\ joins(tag) <=> joint_output(tag) # None /\ fifo_ready
         /\ joins(tag) => /\ paired(tag) \in Pair /\ joint_output(tag) = paired(tag)
                          /\ paired(tag).word # None /\ paired(tag).tag # None
         /\ joint_ready("word", tag) = (joint.word = None \/ joins(tag))
         /\ joint_ready("tag", tag) = (joint.tag = None \/ joins(tag))
         /\ None \notin Word /\ None \notin Pair /\ None \notin Nat
<1>1. byte \in Nat \cup {None} /\ tag \in Nat \cup {None}
  BY StreamAssumption DEF TypeInv, Around, Offered
<1>2. None \notin Word /\ None \notin Pair /\ None \notin Nat
  BY StreamAssumption DEF Word, Pair
<1>3. DOMAIN joint = {"word", "tag"} /\ joint.word \in Word \cup {None} /\ joint.tag \in Nat \cup {None}
  BY DEF TypeInv
<1>4. /\ gearbox.bytes \in Seq(Nat) /\ Len(gearbox.bytes) <= 3
      /\ gearbox.word \in Word \cup {None}
  BY DEF TypeInv
<1>5. buffer_output \in Word \cup {None}
  BY <1>4 DEF TypeInv, buffer_output, Buffer_output
<1>6. /\ joint_inputs(tag).word = buffer_output
      /\ joint_inputs(tag).tag = IF counter > 0 THEN tag ELSE None
  BY DEF joint_inputs, Flow_output
<1>7. paired(tag) = [word |-> IF joint.word # None THEN joint.word ELSE buffer_output,
                     tag  |-> IF joint.tag # None THEN joint.tag ELSE joint_inputs(tag).tag]
  BY <1>3, <1>6 DEF paired, Concat_payload
<1>8. joint_output(tag) = IF paired(tag).word # None /\ paired(tag).tag # None
                          THEN paired(tag) ELSE None
  BY <1>3 DEF joint_output, Concat_output, paired
<1>9. paired(tag).word # None /\ paired(tag).tag # None => paired(tag) \in Pair
  BY <1>1, <1>3, <1>5, <1>6, <1>7 DEF Pair
<1>10. joins(tag) <=> joint_output(tag) # None /\ fifo_ready
  BY DEF joins, Concat_transfers, is_transferring, joint_output
<1>11. /\ joint_ready("word", tag) = (joint.word = None \/ joins(tag))
       /\ joint_ready("tag", tag) = (joint.tag = None \/ joins(tag))
  BY DEF joint_ready, Concat_ready, joins
<1>12. joins(tag) \in BOOLEAN /\ fifo_ready \in BOOLEAN
  BY DEF joins, Concat_transfers, is_transferring, fifo_ready, w_rdy
<1> QED
  BY <1>1, <1>2, <1>3, <1>4, <1>5, <1>6, <1>7, <1>8, <1>9, <1>10, <1>11, <1>12

\* The types hold after a cycle.
LEMMA CycleTypes ==
  ASSUME TypeInv, NEW byte, NEW tag, NEW release, NEW ready, NEW reset,
         Around(byte, tag, release, ready, reset),
         Cycle(byte, tag, release, ready, reset)
  PROVE  TypeInv'
<1> DEFINE r == joint_ready("word", tag)
           sent == Buffer_ready(buffer, r)
<1>1. \E bytes \in Seq(Nat), word \in Word \cup {None} :
        gearbox' = [bytes |-> bytes, word |-> word] /\ Len(bytes) <= 3
  <2>1. gearbox' = Word_next(gearbox, byte, sent)
    BY DEF Cycle
  <2>2. /\ gearbox.bytes \in Seq(Nat) /\ Len(gearbox.bytes) <= 3
        /\ gearbox.word \in Word \cup {None} /\ byte \in Nat \cup {None}
    BY Wires
  <2> DEFINE bytes == Word_next(gearbox, byte, sent).bytes
             word == Word_next(gearbox, byte, sent).word
  <2>3. gearbox' = [bytes |-> bytes, word |-> word]
    BY <2>1 DEF Word_next
  <2>4. byte # None => /\ Append(gearbox.bytes, byte) \in Seq(Nat)
                       /\ Len(Append(gearbox.bytes, byte)) = Len(gearbox.bytes) + 1
    BY <2>2, AppendProperties
  <2>5. Len(gearbox.bytes) \in Nat /\ <<>> \in Seq(Nat) /\ Len(<<>>) = 0
    BY <2>2, LenProperties, EmptySeq
  <2>6. bytes \in Seq(Nat) /\ Len(bytes) <= 3
    <3>1. bytes = gearbox.bytes \/ bytes = <<>>
            \/ (bytes = Append(gearbox.bytes, byte) /\ byte # None /\ Len(gearbox.bytes) # 3)
      BY DEF Word_next, is_transferring
    <3>2. \A n \in Nat : n <= 3 /\ n # 3 => n + 1 <= 3
      BY SMT
    <3>3. Len(gearbox.bytes) # 3 => Len(gearbox.bytes) + 1 <= 3
      BY <2>2, <2>5, <3>2
    <3> HIDE DEF bytes
    <3>4. CASE bytes = gearbox.bytes
      BY <2>2, <3>4
    <3>5. CASE bytes = <<>>
      BY <2>5, <3>5, SMT
    <3>6. CASE bytes = Append(gearbox.bytes, byte) /\ byte # None /\ Len(gearbox.bytes) # 3
      BY <2>4, <3>3, <3>6
    <3> QED
      BY <3>1, <3>4, <3>5, <3>6
  <2>7. word \in Word \cup {None}
    BY <2>2, <2>4 DEF Word_next, is_transferring, Word
  <2> QED
    BY <2>3, <2>6, <2>7
<1>2. buffer' \in Word \cup {None}
  BY Wires DEF Cycle, Buffer_next, TypeInv
<1>3. counter' \in Nat
  <2>1. counter \in Nat /\ release \in Nat \cup {None}
    BY StreamAssumption DEF TypeInv, Around, Requests
  <2>2. counter' = Flow_next(counter, tag, joint_ready("tag", tag), release)
    BY DEF Cycle
  <2> QED
    BY <2>1, <2>2 DEF Flow_next
<1>4. \E word \in Word \cup {None}, t \in Nat \cup {None} : joint' = [word |-> word, tag |-> t]
  <2>1. joint' = Concat_next(joint, joint_inputs(tag), fifo_ready, reset)
    BY DEF Cycle
  <2>2. /\ joint_inputs(tag).word \in Word \cup {None} /\ joint_inputs(tag).tag \in Nat \cup {None}
        /\ joint.word \in Word \cup {None} /\ joint.tag \in Nat \cup {None}
        /\ DOMAIN joint = {"word", "tag"}
    BY Wires
  <2>3. /\ joint' = [word |-> joint'.word, tag |-> joint'.tag]
        /\ joint'.word \in Word \cup {None} /\ joint'.tag \in Nat \cup {None}
    BY <2>1, <2>2 DEF Concat_next
  <2> QED
    BY <2>3
<1>5. \E items \in Seq(Pair), out \in Pair \cup {None} : fifo' = [items |-> items, out |-> out]
  <2>1. fifo' = StreamFifo(fifo, FifoDepth, joint_output(tag), ready)
    BY DEF Cycle
  <2>2. joint_output(tag) \in Pair \cup {None}
    BY Wires
  <2>3. fifo.items \in Seq(Pair) /\ fifo.out \in Pair \cup {None}
    BY DEF TypeInv
  <2> DEFINE kept == IF fifo.items # <<>> /\ (fifo.out = None \/ ready) THEN Tail(fifo.items)
                     ELSE fifo.items
  <2>4. kept \in Seq(Pair)
    BY <2>3, HeadTailProperties
  <2>5. joint_output(tag) # None => Append(kept, joint_output(tag)) \in Seq(Pair)
    BY <2>2, <2>4, AppendProperties
  <2>6. fifo.items # <<>> => Head(fifo.items) \in Pair
    BY <2>3, HeadTailProperties
  <2> HIDE DEF kept
  <2>7. /\ fifo' = [items |-> fifo'.items, out |-> fifo'.out]
        /\ fifo'.items = kept
             \/ (joint_output(tag) # None /\ fifo'.items = Append(kept, joint_output(tag)))
        /\ fifo'.out = fifo.out \/ fifo'.out = None
             \/ (fifo.items # <<>> /\ fifo'.out = Head(fifo.items))
    BY <2>1 DEF StreamFifo, Fifo, kept
  <2> QED
    BY <2>3, <2>4, <2>5, <2>6, <2>7
<1>6. made' \in [byte : 0 .. Bytes - 1, tag : 0 .. Tags - 1]
  <2>1. /\ Bytes \in Nat \ {0} /\ Tags \in Nat \ {0}
        /\ made.byte \in 0 .. Bytes - 1 /\ made.tag \in 0 .. Tags - 1
    BY StreamAssumption DEF TypeInv
  <2>2. \A x \in Nat, n \in Nat \ {0} : (x + 1) % n \in 0 .. n - 1
    BY SMT
  <2>3. (made.byte + 1) % Bytes \in 0 .. Bytes - 1 /\ (made.tag + 1) % Tags \in 0 .. Tags - 1
    BY <2>1, <2>2
  <2>4. made' = [byte |-> IF byte_accepted(byte) THEN (made.byte + 1) % Bytes ELSE made.byte,
                 tag  |-> IF tag_accepted(tag) THEN (made.tag + 1) % Tags ELSE made.tag]
    BY DEF Cycle
  <2> QED
    BY <2>1, <2>3, <2>4
<1> QED
  BY <1>1, <1>2, <1>3, <1>4, <1>5, <1>6 DEF TypeInv

\* Queues of one or two items.
LEMMA Singles ==
  ASSUME NEW a, NEW b
  PROVE  /\ <<>> # <<b>> /\ Head(<<b>>) = b /\ Tail(<<b>>) = <<>>
         /\ Append(<<>>, b) = <<b>>
         /\ <<a>> # <<>> /\ Head(<<a>>) = a /\ Tail(<<a>>) = <<>>
         /\ Append(<<a>>, b) # <<>> /\ Head(Append(<<a>>, b)) = a
         /\ Tail(Append(<<a>>, b)) = <<b>>
<1> DEFINE S == {a, b}
<1>1. <<>> \in Seq(S) /\ <<a>> \in Seq(S) /\ <<b>> \in Seq(S) /\ a \in S /\ b \in S
  BY SMT
<1> HIDE DEF S
<1>2. Append(<<>>, b) = <<b>> /\ Append(<<>>, a) = <<a>>
  BY <1>1, AppendIsConcat, ConcatEmptySeq
<1>3. <<a>> # <<>> /\ <<b>> # <<>> /\ Append(<<a>>, b) # <<>>
  BY <1>1, <1>2, AppendProperties
<1>4. \A seq \in Seq(S), elt \in S :
        /\ Head(Append(seq, elt)) = IF seq = <<>> THEN elt ELSE Head(seq)
        /\ Tail(Append(seq, elt)) = IF seq = <<>> THEN <<>> ELSE Append(Tail(seq), elt)
  BY HeadTailAppend
<1>5. Head(<<a>>) = a /\ Tail(<<a>>) = <<>> /\ Head(<<b>>) = b /\ Tail(<<b>>) = <<>>
  BY <1>1, <1>2, <1>4
<1>6. Head(Append(<<a>>, b)) = a /\ Tail(Append(<<a>>, b)) = <<b>>
  BY <1>1, <1>2, <1>3, <1>4, <1>5
<1> QED
  BY <1>2, <1>3, <1>5, <1>6

\* The tag that goes in, if one does.
came_tag(tag) == IF tag_accepted(tag) THEN tag ELSE None

\* The byte that goes in, if one does.
came_byte(byte) == IF byte_accepted(byte) THEN byte ELSE None

\* FlowRestrictor and the tag's half of ConcatenatingBuffer.
LEMMA TagsImplemented ==
  ASSUME TypeInv, NEW byte, NEW tag, NEW release, NEW ready, NEW reset,
         Around(byte, tag, release, ready, reset),
         Cycle(byte, tag, release, ready, reset)
  PROVE  LET waiting == Paired!With(Held(joint.tag), came_tag(tag))
         IN  /\ came_tag(tag) \in (0 .. Tags - 1) \cup {None}
             /\ Paired!PutTag(came_tag(tag))
             /\ joins(tag) => waiting # <<>> /\ Head(waiting) = paired(tag).tag
             /\ Held(joint.tag)' = IF reset THEN <<>> ELSE IF joins(tag) THEN Tail(waiting) ELSE waiting
<1> DEFINE waiting == Paired!With(Held(joint.tag), came_tag(tag))
           r == joint_ready("tag", tag)
<1>1. r = (joint.tag = None \/ joins(tag)) /\ joins(tag) \in BOOLEAN
  BY Wires
<1>2. counter \in Nat /\ tag \in Nat \cup {None}
  BY Wires DEF TypeInv
<1>3. tag_accepted(tag) = (tag # None /\ counter > 0 /\ r)
  BY DEF tag_accepted, is_transferring, Flow_ready
<1>4. came_tag(tag) \in (0 .. Tags - 1) \cup {None}
  BY DEF came_tag, Around, Offered, TypeInv
<1>5. Paired!PutTag(came_tag(tag))
  <2>1. counter' = Flow_next(counter, tag, r, release)
    BY DEF Cycle
  <2>2. release \in Releases \cup {None} /\ None \notin Releases /\ (counter # 0 => release = None)
    BY StreamAssumption DEF Around, Requests
  <2>3. CASE tag_accepted(tag)
    BY <1>1, <1>3, <2>1, <2>3 DEF came_tag, Paired!PutTag, Flow_next, is_transferring
  <2>4. CASE ~tag_accepted(tag) /\ counter > 0
    BY <1>1, <1>3, <2>1, <2>4 DEF came_tag, Paired!PutTag, Flow_next, is_transferring
  <2>5. CASE ~tag_accepted(tag) /\ counter = 0 /\ release # None
    <3>1. ~(0 > 0)
      BY SMT
    <3>2. counter' = release
      BY <2>1, <2>5, <3>1 DEF Flow_next
    <3> QED
      BY <2>2, <2>5, <3>2 DEF came_tag, Paired!PutTag
  <2>6. CASE ~tag_accepted(tag) /\ counter = 0 /\ release = None
    <3>1. ~(0 > 0)
      BY SMT
    <3>2. counter' = 0
      BY <2>1, <2>6, <3>1 DEF Flow_next
    <3> QED
      BY <2>6, <3>2 DEF came_tag, Paired!PutTag
  <2>7. counter > 0 \/ counter = 0
    BY <1>2, SMT
  <2> QED
    BY <2>3, <2>4, <2>5, <2>6, <2>7
<1>6. /\ joint'.tag = IF reset THEN None
                      ELSE IF joint.tag = None THEN (IF joins(tag) THEN None ELSE joint_inputs(tag).tag)
                      ELSE IF joins(tag) THEN joint_inputs(tag).tag ELSE joint.tag
      /\ joint_inputs(tag).tag = IF counter > 0 THEN tag ELSE None
      /\ joins(tag) => paired(tag).tag # None
      /\ paired(tag).tag = IF joint.tag # None THEN joint.tag ELSE joint_inputs(tag).tag
  BY Wires DEF Cycle, Concat_next, joins
<1>7. /\ <<>> # <<tag>> /\ Head(<<tag>>) = tag /\ Tail(<<tag>>) = <<>>
      /\ Append(<<>>, tag) = <<tag>>
      /\ <<joint.tag>> # <<>> /\ Head(<<joint.tag>>) = joint.tag /\ Tail(<<joint.tag>>) = <<>>
      /\ Append(<<joint.tag>>, tag) # <<>> /\ Head(Append(<<joint.tag>>, tag)) = joint.tag
      /\ Tail(Append(<<joint.tag>>, tag)) = <<tag>>
  BY Singles
<1>8. /\ joins(tag) => waiting # <<>> /\ Head(waiting) = paired(tag).tag
      /\ Held(joint'.tag) = IF reset THEN <<>> ELSE IF joins(tag) THEN Tail(waiting) ELSE waiting
  <2> USE DEF Held, Paired!With, came_tag
  <2>1. CASE joint.tag = None /\ joins(tag)
    BY <1>1, <1>3, <1>6, <1>7, <2>1
  <2>2. CASE joint.tag = None /\ ~joins(tag)
    BY <1>1, <1>3, <1>6, <1>7, <2>2
  <2>3. CASE joint.tag # None /\ joins(tag)
    BY <1>1, <1>3, <1>6, <1>7, <2>3
  <2>4. CASE joint.tag # None /\ ~joins(tag)
    BY <1>1, <1>3, <1>6, <1>7, <2>4
  <2> QED
    BY <1>1, <2>1, <2>2, <2>3, <2>4
<1> QED
  BY <1>4, <1>5, <1>8 DEF Held

\* StreamFifo behind the ConcatenatingBuffer.
LEMMA PairsImplemented ==
  ASSUME TypeInv, NEW byte, NEW tag, NEW release, NEW ready, NEW reset,
         Around(byte, tag, release, ready, reset),
         Cycle(byte, tag, release, ready, reset)
  PROVE  LET take == pair_taken(ready)
             left == IF take THEN Tail(FifoContents(fifo)) ELSE FifoContents(fifo)
         IN  /\ take => FifoContents(fifo) # <<>>
             /\ last'.taken = IF take THEN Head(FifoContents(fifo)) ELSE None
             /\ FifoContents(fifo)' = IF joins(tag) THEN Append(left, paired(tag)) ELSE left
<1> DEFINE take == pair_taken(ready)
           q == FifoContents(fifo)
           left == IF take THEN Tail(q) ELSE q
           came == Transferred(joint_output(tag), fifo_ready)
           next == FifoContents(fifo')
<1>1. PICK items \in Seq(Pair), out \in Pair \cup {None} : fifo = [items |-> items, out |-> out]
  BY DEF TypeInv
<1>2. /\ joint_output(tag) \in Pair \cup {None} /\ None \notin Pair
      /\ joins(tag) <=> joint_output(tag) # None /\ fifo_ready
      /\ joins(tag) => joint_output(tag) = paired(tag)
      /\ joins(tag) \in BOOLEAN
  BY Wires
<1>3. q \o came = Transferred(fifo.out, ready) \o next
  <2>1. ready \in BOOLEAN /\ FifoDepth \in Nat
    BY StreamAssumption DEF Around
  <2>2. next = FifoContents(StreamFifo(fifo, FifoDepth, joint_output(tag), ready))
    BY DEF Cycle
  <2> DEFINE input == joint_output(tag)
  <2>3. input \in Pair \cup {None}
    BY <1>2
  <2>4. came = Transferred(input, w_rdy(fifo, FifoDepth))
    BY DEF fifo_ready
  <2> HIDE DEF input, came, next
  <2>7. LET f == [items |-> items, out |-> out]
        IN  Conserves(FifoContents(f), Transferred(input, w_rdy(f, FifoDepth)),
                      Transferred(out, ready), FifoContents(StreamFifo(f, FifoDepth, input, ready)))
    BY <1>1, <1>2, <2>1, <2>3, FifoConserves
  <2>5. FifoContents(fifo) \o Transferred(input, w_rdy(fifo, FifoDepth))
          = Transferred(out, ready) \o FifoContents(StreamFifo(fifo, FifoDepth, input, ready))
    BY <1>1, <2>7 DEF Conserves
  <2>6. out = fifo.out
    BY <1>1
  <2> QED
    BY <2>2, <2>4, <2>5, <2>6 DEF input
<1>4. came \in Seq(Pair) /\ came = IF joins(tag) THEN <<paired(tag)>> ELSE <<>>
  BY <1>2, SMT DEF Transferred, is_transferring
<1>5. q \in Seq(Pair) /\ next \in Seq(Pair)
  <2>1. TypeInv'
    BY CycleTypes
  <2>2. \E i \in Seq(Pair), o \in Pair \cup {None} : fifo' = [items |-> i, out |-> o]
    BY <2>1 DEF TypeInv
  <2>3. \A x \in Pair \cup {None} : Held(x) \in Seq(Pair)
    BY SMT DEF Held
  <2> QED
    BY <1>1, <2>2, <2>3, ConcatProperties DEF FifoContents
<1>6. take => fifo.out \in Pair /\ Transferred(fifo.out, ready) = <<fifo.out>>
  BY <1>1 DEF pair_taken, is_transferring, Transferred
<1>7. ~take => Transferred(fifo.out, ready) = <<>>
  BY DEF pair_taken, is_transferring, Transferred
<1>8. take => q # <<>>
  <2>1. take => q = <<fifo.out>> \o items
    BY <1>1 DEF FifoContents, Held, pair_taken, is_transferring
  <2>2. take => Len(<<fifo.out>> \o items) = 1 + Len(items)
    BY <1>1, <1>6, SMT
  <2>3. Len(items) \in Nat /\ Len(<<>>) = 0
    BY <1>1, LenProperties, EmptySeq
  <2> QED
    BY <2>1, <2>2, <2>3, SMT
<1>9. take => Head(q) = fifo.out /\ Tail(q) \o came = next
  <2> SUFFICES ASSUME take PROVE Head(q) = fifo.out /\ Tail(q) \o came = next
    OBVIOUS
  <2>1. Conserves(q, came, <<fifo.out>>, next)
    BY <1>3, <1>6 DEF Conserves
  <2>2. fifo.out \in Pair /\ q # <<>>
    BY <1>6, <1>8
  <2> HIDE DEF q, came, next
  <2> QED
    BY <1>4, <1>5, <2>1, <2>2, DropFirst
<1>10. ~take => q \o came = next
  BY <1>3, <1>5, <1>7, ConcatEmptySeq
<1>11. left \o came = next /\ left \in Seq(Pair)
  <2> HIDE DEF take, q, came, next
  <2> QED
    BY <1>5, <1>8, <1>9, <1>10, HeadTailProperties
<1>12. next = IF joins(tag) THEN Append(left, paired(tag)) ELSE left
  <2>1. joins(tag) => paired(tag) \in Pair
    BY Wires
  <2> HIDE DEF left, next, came
  <2> QED
    BY <1>2, <1>4, <1>11, <2>1, AppendIsConcat, ConcatEmptySeq
<1>13. last'.taken = IF take THEN fifo.out ELSE None
  BY DEF Cycle
<1> QED
  BY <1>8, <1>9, <1>12, <1>13 DEF FifoContents

\* Associativity, as the equation that the other lemmas are about.
LEMMA Associates ==
  ASSUME NEW T, NEW a \in Seq(T), NEW b \in Seq(T), NEW c \in Seq(T)
  PROVE  Conserves(a \o b, c, a, b \o c)
  BY ConcatAssociative DEF Conserves

\* Components in a row conserve what each of them does.
LEMMA InARow ==
  ASSUME NEW T, NEW a \in Seq(T), NEW b \in Seq(T), NEW came \in Seq(T), NEW between \in Seq(T),
         NEW went \in Seq(T), NEW c \in Seq(T), NEW d \in Seq(T),
         Conserves(b, came, between, d), Conserves(a, between, went, c)
  PROVE  Conserves(a \o b, came, went, c \o d)
<1>1. Conserves(a \o b, came, a, b \o came)
  BY Associates
<1>2. Conserves(a \o between, d, a, between \o d)
  BY Associates
<1>3. Conserves(went \o c, d, went, c \o d)
  BY Associates
<1> QED
  BY <1>1, <1>2, <1>3 DEF Conserves

\* The word that is completed, if one is.
new_word(byte) ==
  IF came_byte(byte) # None /\ Len(gearbox.bytes) = 3 THEN Append(gearbox.bytes, byte) ELSE None

held_words == (Held(joint.word) \o Held(buffer)) \o Held(gearbox.word)

joined_words(tag) == IF joins(tag) THEN <<paired(tag).word>> ELSE <<>>

\* The words of ByteToWord.
LEMMA NewWords ==
  ASSUME TypeInv, NEW byte, NEW tag, NEW release, NEW ready, NEW reset,
         Around(byte, tag, release, ready, reset),
         Cycle(byte, tag, release, ready, reset)
  PROVE  LET sent == Buffer_ready(buffer, joint_ready("word", tag))
         IN  /\ came_byte(byte) \in (0 .. Bytes - 1) \cup {None}
             /\ gearbox.bytes' = IF came_byte(byte) # None /\ Len(gearbox.bytes) = 3 THEN <<>>
                                 ELSE Paired!With(gearbox.bytes, came_byte(byte))
             /\ new_word(byte) \in Word \cup {None}
             /\ came_byte(byte) # None => came_byte(byte) = byte
             /\ new_word(byte) # None => gearbox.word = None
             /\ gearbox.word' = IF new_word(byte) # None THEN new_word(byte)
                                ELSE IF gearbox.word # None /\ sent THEN None ELSE gearbox.word
             /\ Conserves(Held(gearbox.word), Held(new_word(byte)),
                          Transferred(gearbox.word, sent), Held(gearbox'.word))
<1> DEFINE sent == Buffer_ready(buffer, joint_ready("word", tag))
           completes == came_byte(byte) # None /\ Len(gearbox.bytes) = 3
<1>1. /\ byte \in Nat \cup {None} /\ None \notin Nat /\ None \notin Word
      /\ gearbox.bytes \in Seq(Nat) /\ gearbox.word \in Word \cup {None}
  BY Wires
<1>2. gearbox' = Word_next(gearbox, byte, sent)
  BY DEF Cycle
<1>3. came_byte(byte) # None => came_byte(byte) = byte /\ byte # None /\ byte_accepted(byte)
  BY DEF came_byte
<1>4. byte_accepted(byte) => came_byte(byte) = byte /\ byte # None
  BY DEF came_byte, byte_accepted, is_transferring
<1>5. byte_accepted(byte) <=> is_transferring(byte, Word_ready(gearbox))
  BY DEF byte_accepted
<1>6. came_byte(byte) \in (0 .. Bytes - 1) \cup {None}
  BY DEF came_byte, Around, Offered, TypeInv
<1>7. gearbox'.bytes = IF completes THEN <<>> ELSE Paired!With(gearbox.bytes, came_byte(byte))
  BY <1>2, <1>3, <1>4, <1>5 DEF Word_next, Paired!With
<1>8. completes => Append(gearbox.bytes, byte) \in Word
  BY <1>1, <1>3, AppendProperties DEF Word
<1>9. /\ new_word(byte) \in Word \cup {None}
      /\ completes <=> new_word(byte) # None
      /\ completes => new_word(byte) = Append(gearbox.bytes, byte)
  BY <1>1, <1>8 DEF new_word
<1>10. completes => gearbox.word = None
  <2>1. ~(3 < 3)
    BY SMT
  <2> QED
    BY <2>1, <1>3, <1>5 DEF Word_ready, is_transferring
<1>11. gearbox'.word = IF completes THEN new_word(byte)
                       ELSE IF gearbox.word # None /\ sent THEN None ELSE gearbox.word
  BY <1>2, <1>3, <1>4, <1>5, <1>9 DEF Word_next, is_transferring
<1>12. Conserves(Held(gearbox.word), Held(new_word(byte)), Transferred(gearbox.word, sent),
                 Held(gearbox'.word))
  <2> USE DEF Conserves, Held, Transferred, is_transferring
  <2> HIDE DEF completes, sent
  <2>1. CASE completes
    BY <1>9, <1>10, <1>11, <2>1, Nothing
  <2>2. CASE ~completes /\ gearbox.word = None
    BY <1>9, <1>11, <2>2, Nothing
  <2>3. CASE ~completes /\ gearbox.word # None /\ sent
    BY <1>9, <1>11, <2>3, Nothing
  <2>4. CASE ~completes /\ gearbox.word # None /\ ~sent
    BY <1>9, <1>11, <2>4, Nothing
  <2> QED
    BY <2>1, <2>2, <2>3, <2>4
<1> QED
  BY <1>3, <1>6, <1>7, <1>9, <1>10, <1>11, <1>12

\* What is left of the words that were held, in a cycle without a reset.
LEMMA WordsConserved ==
  ASSUME TypeInv, NEW byte, NEW tag, NEW release, NEW ready, NEW reset,
         Around(byte, tag, release, ready, reset),
         Cycle(byte, tag, release, ready, reset)
  PROVE  LET kept == IF joins(tag) THEN Tail(held_words) ELSE held_words
             word == Concat_next(joint, joint_inputs(tag), fifo_ready, FALSE).word
             item == Buffer_next(buffer, gearbox.word, joint_ready("word", tag), FALSE)
         IN  /\ held_words \in Seq(Word) /\ kept \in Seq(Word)
             /\ joins(tag) => held_words # <<>> /\ Head(held_words) = paired(tag).word
             /\ kept \o Held(new_word(byte)) = (Held(word) \o Held(item)) \o Held(gearbox'.word)
             /\ (Held(word) \o Held(item)) \o Held(gearbox'.word) \in Seq(Word)
<1> DEFINE r == joint_ready("word", tag)
           sent == Buffer_ready(buffer, r)
           inputs == joint_inputs(tag)
           kept == IF joins(tag) THEN Tail(held_words) ELSE held_words
           word == Concat_next(joint, inputs, fifo_ready, FALSE).word
           item == Buffer_next(buffer, gearbox.word, r, FALSE)
           next == (Held(word) \o Held(item)) \o Held(gearbox'.word)
<1>1. /\ joint.word \in Word \cup {None} /\ buffer \in Word \cup {None}
      /\ gearbox.word \in Word \cup {None} /\ buffer_output \in Word \cup {None}
      /\ joint_inputs(tag).word = buffer_output
      /\ DOMAIN joint = {"word", "tag"}
      /\ joins(tag) \in BOOLEAN /\ fifo_ready \in BOOLEAN /\ r \in BOOLEAN
      /\ joins(tag) => paired(tag).word \in Word /\ paired(tag).word # None
      /\ paired(tag).word = IF joint.word # None THEN joint.word ELSE buffer_output
  <2>1. buffer \in Word \cup {None}
    BY DEF TypeInv
  <2>2. r = (joint.word = None \/ joins(tag)) /\ joins(tag) \in BOOLEAN
    BY Wires
  <2>3. joins(tag) => paired(tag).word \in Word /\ paired(tag).word # None
    BY Wires DEF Pair
  <2>4. paired(tag).word = IF joint.word # None THEN joint.word ELSE buffer_output
    BY Wires
  <2>5. /\ joint.word \in Word \cup {None}
        /\ gearbox.word \in Word \cup {None} /\ buffer_output \in Word \cup {None}
        /\ joint_inputs(tag).word = buffer_output
        /\ DOMAIN joint = {"word", "tag"} /\ fifo_ready \in BOOLEAN
    BY Wires
  <2> HIDE DEF r
  <2>6. r \in BOOLEAN
    BY <2>2
  <2> QED
    BY <2>1, <2>2, <2>3, <2>4, <2>5, <2>6
<1>2. gearbox'.word \in Word \cup {None} /\ new_word(byte) \in Word \cup {None}
  <2>1. TypeInv'
    BY CycleTypes
  <2>2. gearbox'.word \in Word \cup {None}
    BY <2>1 DEF TypeInv
  <2>3. new_word(byte) \in Word \cup {None}
    BY NewWords
  <2> QED
    BY <2>2, <2>3
<1>3. word \in Word \cup {None} /\ item \in Word \cup {None}
  BY <1>1 DEF Concat_next, Buffer_next
<1>4. \A x \in Word \cup {None} : Held(x) \in Seq(Word)
  BY SMT DEF Held
<1>5. joined_words(tag) \in Seq(Word)
  BY <1>1, SMT DEF joined_words
<1>6. /\ Transferred(gearbox.word, sent) \in Seq(Word)
      /\ Transferred(buffer_output, r) \in Seq(Word)
  BY <1>1, SMT DEF Transferred, is_transferring
<1>7. Conserves(Held(gearbox.word), Held(new_word(byte)), Transferred(gearbox.word, sent),
                Held(gearbox'.word))
  BY NewWords
<1>8. Conserves(Held(buffer), Transferred(gearbox.word, sent), Transferred(buffer_output, r),
                Held(item))
  BY <1>1, BufferConserves DEF buffer_output
<1>9. Conserves(Held(joint.word), Transferred(buffer_output, r), joined_words(tag), Held(word))
  <2>1. r = Concat_ready(joint, inputs, fifo_ready, "word")
    BY DEF joint_ready
  <2>2. joined_words(tag) = IF Concat_transfers(joint, inputs, fifo_ready)
                            THEN <<Concat_payload(joint, inputs)["word"]>> ELSE <<>>
    BY DEF joined_words, joins, paired
  <2>3. Conserves(Held(joint["word"]),
                  Transferred(inputs["word"], Concat_ready(joint, inputs, fifo_ready, "word")),
                  IF Concat_transfers(joint, inputs, fifo_ready)
                  THEN <<Concat_payload(joint, inputs)["word"]>> ELSE <<>>,
                  Held(Concat_next(joint, inputs, fifo_ready, FALSE)["word"]))
    <3> HIDE DEF inputs
    <3>1. "word" \in {"word", "tag"}
      OBVIOUS
    <3> QED
      BY <1>1, <3>1, ConcatConserves
  <2> QED
    BY <1>1, <2>1, <2>2, <2>3
<1> HIDE DEF r, sent, word, item
<1>10. /\ Held(joint.word) \o Held(buffer) \in Seq(Word)
       /\ Held(word) \o Held(item) \in Seq(Word)
  BY <1>1, <1>3, <1>4, ConcatProperties
<1>11. held_words \in Seq(Word) /\ next \in Seq(Word)
  BY <1>1, <1>2, <1>4, <1>10, ConcatProperties DEF held_words
<1>12. Conserves(Held(joint.word) \o Held(buffer), Transferred(gearbox.word, sent),
                 joined_words(tag), Held(word) \o Held(item))
  BY <1>1, <1>3, <1>4, <1>5, <1>6, <1>8, <1>9, InARow
<1>13. Conserves(held_words, Held(new_word(byte)), joined_words(tag), next)
  BY <1>1, <1>2, <1>4, <1>5, <1>6, <1>7, <1>10, <1>12, InARow DEF held_words
<1>14. joins(tag) => held_words # <<>>
  <2> SUFFICES ASSUME joins(tag), held_words = <<>> PROVE FALSE
    OBVIOUS
  <2>1. \A s, t \in Seq(Word) : s \o t = <<>> => s = <<>> /\ t = <<>>
    BY ConcatEqualIffEmpty
  <2>2. Held(joint.word) = <<>> /\ Held(buffer) = <<>> /\ Held(gearbox.word) = <<>>
    BY <1>1, <1>4, <1>10, <2>1 DEF held_words
  <2>3. joint.word = None /\ buffer = None /\ gearbox.word = None
    BY <2>2, Singles DEF Held
  <2> QED
    BY <1>1, <2>3 DEF buffer_output, Buffer_output
<1> HIDE DEF next
<1>15. joins(tag) => Head(held_words) = paired(tag).word /\ Tail(held_words) \o Held(new_word(byte)) = next
  <2> SUFFICES ASSUME joins(tag)
               PROVE  /\ Head(held_words) = paired(tag).word
                      /\ Tail(held_words) \o Held(new_word(byte)) = next
    OBVIOUS
  <2>1. Conserves(held_words, Held(new_word(byte)), <<paired(tag).word>>, next)
    BY <1>13 DEF joined_words
  <2>2. /\ held_words \in Seq(Word) /\ held_words # <<>> /\ next \in Seq(Word)
        /\ Held(new_word(byte)) \in Seq(Word) /\ paired(tag).word \in Word
    BY <1>1, <1>2, <1>4, <1>11, <1>14
  <2> QED
    BY <2>1, <2>2, DropFirst
<1>16. ~joins(tag) => held_words \o Held(new_word(byte)) = next
  BY <1>11, <1>13, ConcatEmptySeq DEF Conserves, joined_words
<1>17. kept \in Seq(Word)
  BY <1>11, <1>14, HeadTailProperties
<1>18. kept \o Held(new_word(byte)) = next
  BY <1>15, <1>16
<1> QED
  BY <1>11, <1>14, <1>15, <1>17, <1>18 DEF next, word, item, r

\* What is left of a queue when items are dropped: all, none, or the last of three.
LEMMA Drops ==
  ASSUME NEW S, NEW q \in Seq(S)
  PROVE  /\ SubSeq(q, 0 + 1, Len(q)) = q
         /\ SubSeq(q, Len(q) + 1, Len(q)) = <<>>
         /\ \A a, b, c \in S : q = (<<a>> \o <<b>>) \o <<c>> =>
              2 \in 0 .. Len(q) /\ SubSeq(q, 2 + 1, Len(q)) = <<c>>
<1>1. Len(q) \in Nat
  BY LenProperties
<1>2. SubSeq(q, 0 + 1, Len(q)) = q
  <2>1. 0 + 1 = 1
    BY SMT
  <2> QED
    BY <2>1, SubSeqFull
<1>3. SubSeq(q, Len(q) + 1, Len(q)) = <<>>
  BY <1>1, SMT
<1>4. ASSUME NEW a \in S, NEW b \in S, NEW c \in S, q = (<<a>> \o <<b>>) \o <<c>>
      PROVE  2 \in 0 .. Len(q) /\ SubSeq(q, 2 + 1, Len(q)) = <<c>>
  <2>1. Len(q) = 3 /\ q[3] = c
    BY <1>4, SMT
  <2>2. /\ SubSeq(q, 3, 3) \in Seq(S) /\ Len(SubSeq(q, 3, 3)) = 1
        /\ SubSeq(q, 3, 3)[1] = c
    BY <2>1, SMT
  <2>3. <<c>> \in Seq(S) /\ Len(<<c>>) = 1 /\ <<c>>[1] = c
    BY SMT
  <2>4. SubSeq(q, 3, 3) = <<c>>
    <3> DEFINE x == SubSeq(q, 3, 3)
               y == <<c>>
    <3>1. /\ x \in Seq(S) /\ y \in Seq(S) /\ Len(x) = 1 /\ Len(y) = 1 /\ x[1] = y[1]
      BY <2>2, <2>3
    <3> HIDE DEF x, y
    <3>2. \A i \in 1 .. Len(x) : x[i] = y[i]
      BY <3>1, SMT
    <3>3. x = y
      BY <3>1, <3>2, SeqEqual
    <3> QED
      BY <3>3 DEF x, y
  <2>5. 2 + 1 = 3 /\ 2 \in 0 .. 3
    BY SMT
  <2> QED
    BY <2>1, <2>4, <2>5
<1> QED
  BY <1>2, <1>3, <1>4

\* ByteToWord, Buffer and the word's half of ConcatenatingBuffer.
LEMMA WordsImplemented ==
  ASSUME TypeInv, NEW byte, NEW tag, NEW release, NEW ready, NEW reset,
         Around(byte, tag, release, ready, reset),
         Cycle(byte, tag, release, ready, reset)
  PROVE  Paired!PutByte(came_byte(byte), joins(tag), reset)
<1> DEFINE r == joint_ready("word", tag)
           sent == Buffer_ready(buffer, r)
           kept == IF joins(tag) THEN Tail(held_words) ELSE held_words
           new == new_word(byte)
           after(dropped) == Paired!With(SubSeq(kept, dropped + 1, Len(kept)), new)
<1>1. /\ gearbox'.bytes = IF came_byte(byte) # None /\ Len(gearbox.bytes) = 3 THEN <<>>
                          ELSE Paired!With(gearbox.bytes, came_byte(byte))
      /\ new = IF came_byte(byte) # None /\ Len(gearbox.bytes) = 3
               THEN Append(gearbox.bytes, came_byte(byte)) ELSE None
  BY NewWords DEF new_word
<1>2. /\ new \in Word \cup {None}
      /\ new # None => gearbox.word = None
      /\ gearbox'.word = IF new # None THEN new
                         ELSE IF gearbox.word # None /\ sent THEN None ELSE gearbox.word
  BY NewWords
<1>3. kept \in Seq(Word) /\ None \notin Word
  BY Wires, WordsConserved
<1>4. /\ joint'.word = IF reset THEN None
                       ELSE Concat_next(joint, joint_inputs(tag), fifo_ready, FALSE).word
      /\ buffer' = IF reset THEN None ELSE Buffer_next(buffer, gearbox.word, r, FALSE)
  BY Wires DEF Cycle, Concat_next, Buffer_next
<1> DEFINE words_next == (Held(joint'.word) \o Held(buffer')) \o Held(gearbox'.word)
<1>5. \E dropped \in 0 .. (IF reset THEN Len(kept) ELSE 0) : words_next = after(dropped)
  <2>1. /\ SubSeq(kept, 0 + 1, Len(kept)) = kept
        /\ SubSeq(kept, Len(kept) + 1, Len(kept)) = <<>>
        /\ \A a, b, c \in Word : kept = (<<a>> \o <<b>>) \o <<c>> =>
             2 \in 0 .. Len(kept) /\ SubSeq(kept, 2 + 1, Len(kept)) = <<c>>
    BY <1>3, Drops
  <2>2. Len(kept) \in Nat
    BY <1>3, LenProperties
  <2>3. CASE ~reset
    <3>1. kept \o Held(new) = words_next
      BY <1>4, <2>3, WordsConserved
    <3>2. Paired!With(kept, new) = kept \o Held(new)
      BY <1>2, <1>3, WithItem
    <3>3. words_next = after(0)
      BY <2>1, <3>1, <3>2
    <3>4. 0 \in 0 .. 0
      BY SMT
    <3> QED
      BY <2>3, <3>3, <3>4
  <2>4. ASSUME reset PROVE words_next = Held(gearbox'.word)
    <3>1. <<>> \o <<>> = <<>> /\ <<>> \o Held(gearbox'.word) = Held(gearbox'.word)
      BY Nothing DEF Held
    <3>2. Held(joint'.word) = <<>> /\ Held(buffer') = <<>>
      BY <1>4, <2>4 DEF Held
    <3> QED
      BY <3>1, <3>2
  <2>5. CASE reset /\ (new # None \/ gearbox.word = None \/ sent)
    <3>1. gearbox'.word = new
      BY <1>2, <2>5
    <3>2. Paired!With(<<>>, new) = Held(new)
      BY Singles DEF Paired!With, Held
    <3>3. words_next = after(Len(kept))
      BY <2>1, <2>4, <2>5, <3>1, <3>2
    <3>4. Len(kept) \in 0 .. Len(kept)
      BY <2>2, SMT
    <3> QED
      BY <2>5, <3>3, <3>4
  <2>6. CASE reset /\ new = None /\ gearbox.word # None /\ ~sent
    <3>1. gearbox'.word = gearbox.word /\ buffer # None /\ joint.word # None /\ ~joins(tag)
      BY <1>2, <2>6, Wires DEF Buffer_ready
    <3>2. joint.word \in Word /\ buffer \in Word /\ gearbox.word \in Word
      BY <2>6, <3>1, Wires DEF TypeInv
    <3>3. kept = (<<joint.word>> \o <<buffer>>) \o <<gearbox.word>>
      BY <2>6, <3>1 DEF held_words, Held
    <3>4. 2 \in 0 .. Len(kept) /\ SubSeq(kept, 2 + 1, Len(kept)) = <<gearbox.word>>
      BY <2>1, <3>2, <3>3
    <3>5. after(2) = <<gearbox.word>>
      BY <2>6, <3>4 DEF Paired!With
    <3>6. words_next = after(2)
      BY <2>4, <2>6, <3>1, <3>5 DEF Held
    <3> QED
      BY <2>6, <3>4, <3>6
  <2> QED
    BY <2>3, <2>5, <2>6
<1>6. ((Held(joint.word) \o Held(buffer)) \o Held(gearbox.word))' = words_next
  BY DEF Held
<1>7. new = IF came_byte(byte) # None /\ Len(gearbox.bytes) = 3
            THEN Append(gearbox.bytes, came_byte(byte)) ELSE None
  BY <1>1
<1>8. \E dropped \in 0 .. (IF reset THEN Len(kept) ELSE 0) :
        ((Held(joint.word) \o Held(buffer)) \o Held(gearbox.word))'
          = Paired!With(SubSeq(kept, dropped + 1, Len(kept)),
                        IF came_byte(byte) # None /\ Len(gearbox.bytes) = 3
                        THEN Append(gearbox.bytes, came_byte(byte)) ELSE None)
  <2> HIDE DEF new, words_next, kept
  <2> QED
    BY <1>5, <1>6, <1>7
<1> QED
  BY <1>1, <1>8 DEF Paired!PutByte, held_words

\* A cycle is a step of PairedStreams.
LEMMA CyclePairs ==
  ASSUME TypeInv, Next
  PROVE  Paired!Next /\ TypeInv'
<1>1. PICK reset \in BOOLEAN, byte \in Offered(made.byte), tag \in Offered(made.tag),
           release \in Requests, ready \in BOOLEAN : Cycle(byte, tag, release, ready, reset)
  BY DEF Next, Clocked
<1>2. Around(byte, tag, release, ready, reset)
  BY <1>1 DEF Around
<1>3. joins(tag) \in BOOLEAN /\ pair_taken(ready) \in BOOLEAN
  BY <1>1, <1>2, Wires DEF pair_taken, is_transferring
<1>4. Paired!TakePair(pair_taken(ready))
  BY <1>1, <1>2, PairsImplemented DEF Paired!TakePair
<1>5. /\ came_tag(tag) \in (0 .. Tags - 1) \cup {None} /\ Paired!PutTag(came_tag(tag))
      /\ joins(tag) => /\ Paired!With(Held(joint.tag), came_tag(tag)) # <<>>
                       /\ Head(Paired!With(Held(joint.tag), came_tag(tag))) = paired(tag).tag
      /\ Held(joint.tag)' = IF reset THEN <<>>
                            ELSE IF joins(tag) THEN Tail(Paired!With(Held(joint.tag), came_tag(tag)))
                            ELSE Paired!With(Held(joint.tag), came_tag(tag))
  BY <1>1, <1>2, TagsImplemented
<1>6. joins(tag) => /\ held_words # <<>>
                    /\ paired(tag) = [word |-> Head(held_words),
                                      tag |-> Head(Paired!With(Held(joint.tag), came_tag(tag)))]
  <2>1. joins(tag) => held_words # <<>> /\ Head(held_words) = paired(tag).word
    BY <1>1, <1>2, WordsConserved
  <2>2. paired(tag) = [word |-> paired(tag).word, tag |-> paired(tag).tag]
    BY <1>1, <1>2, Wires
  <2> QED
    BY <1>5, <2>1, <2>2
<1>7. Paired!JoinPair(came_tag(tag), joins(tag), pair_taken(ready), reset)
  <2>1. FifoContents(fifo)' =
          LET left == IF pair_taken(ready) THEN Tail(FifoContents(fifo)) ELSE FifoContents(fifo)
          IN  IF joins(tag) THEN Append(left, paired(tag)) ELSE left
    BY <1>1, <1>2, PairsImplemented
  <2> QED
    BY <1>5, <1>6, <2>1 DEF Paired!JoinPair, held_words
<1>8. /\ came_byte(byte) \in (0 .. Bytes - 1) \cup {None}
      /\ Paired!PutByte(came_byte(byte), joins(tag), reset)
  BY <1>1, <1>2, NewWords, WordsImplemented
<1>9. TypeInv'
  BY <1>1, <1>2, CycleTypes
<1> QED
  BY <1>1, <1>3, <1>4, <1>5, <1>7, <1>8, <1>9 DEF Paired!Next

LEMMA StartPairs ==
  ASSUME Init
  PROVE  Paired!Init /\ TypeInv
<1>1. Held(None) = <<>>
  BY DEF Held
<1>2. <<>> \o <<>> = <<>>
  BY Nothing
<1>3. Paired!Init
  BY <1>1, <1>2 DEF Init, Paired!Init, EmptyGearbox, EmptyFifo, FifoContents
<1>4. <<>> \in Seq(Nat) /\ Len(<<>>) = 0 /\ 0 <= 3 /\ <<>> \in Seq(Pair) /\ 0 \in Nat
  BY SMT
<1>5. 0 \in 0 .. Bytes - 1 /\ 0 \in 0 .. Tags - 1
  BY StreamAssumption, SMT
<1>6. TypeInv
  BY <1>4, <1>5 DEF Init, TypeInv, EmptyGearbox, EmptyFifo
<1> QED
  BY <1>3, <1>6

\* The components, joined by nothing but their endpoints, do what PairedStreams says:
\* whatever the surroundings do, the n-th word goes out with the n-th tag, and nothing
\* is lost, repeated or overtaken, for every depth of the StreamFifo.
THEOREM JoinImplements == Spec => ImplementsPairedStreams
<1>1. Init => Paired!Init /\ TypeInv
  BY StartPairs
<1>2. TypeInv /\ [Next]_vars => [Paired!Next]_Paired!vars /\ TypeInv'
  <2>1. CASE Next
    BY <2>1, CyclePairs
  <2>2. CASE UNCHANGED vars
    BY <2>2 DEF vars, Paired!vars, TypeInv, Held, FifoContents
  <2> QED
    BY <2>1, <2>2
<1> QED
  BY <1>1, <1>2, PTL DEF Spec, ImplementsPairedStreams, Paired!Spec
=============================================================================
