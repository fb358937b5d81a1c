----------------------------- MODULE InputStore -----------------------------
(***************************************************************************)
(* InputStore of proj/mnv2_first/gateware/store.py: two buffers, one being *)
(* filled while the other is read.  A buffer is spread over the banks, the *)
(* word with index i in bank i % Banks, and each bank is read through a    *)
(* SequentialMemoryReader (python/amaranth_cfu/util.py), which prefetches  *)
(* because the memory answers one cycle after it is addressed.             *)
(*                                                                         *)
(* One action is one cycle; its parameters are the input wires.            *)
(***************************************************************************)
EXTENDS Integers, Sequences

CONSTANTS
  Words,     \* the values of a 32 bit word
  Zero,      \* the initial contents of memories and registers
  NoWord,    \* no word was taken
  Banks,     \* the number of memories: 4 in the code
  MaxDepth,  \* max_depth: the words in each memory, half of them per buffer
  Depths     \* the pixel sizes, in words, that the driver sets

Half == MaxDepth \div 2

ASSUME ConstantsAssumption ==
  /\ Zero \in Words /\ NoWord \notin Words
  /\ Banks \in Nat \ {0}
  /\ Half \in Nat \ {0} /\ MaxDepth = 2 * Half
  \* input_depth is Signal(range(max_depth * 4 // 2))
  /\ Depths \subseteq 1 .. Banks * Half - 1

BankIds == 0 .. Banks - 1
Buffers == {0, 1}

VARIABLES
  depth,   \* input_depth: the register that CFU_SET_INPUT_DEPTH_WORDS writes
  set_id,  \* its `set` output, which is the restart input of the store
  w,       \* w_curr_buf and w_addr
  r,       \* r_curr_buf, r_addr, last_full and r_ready
  r_full,  \* which buffers are ready for reading
  mem,     \* the memories: mem[bank][<<buffer, address>>]
  port,    \* what each memory's read port returns in this cycle
  smr,     \* the registers of the sequential memory readers
  taken    \* the word the Madd pipeline latched in the last cycle

vars == <<depth, set_id, w, r, r_full, mem, port, smr, taken>>

ResetReader == [buf |-> 0, addr |-> 0, last_full |-> FALSE, ready |-> FALSE]
ResetWriter == [buf |-> 0, addr |-> 0]

\* The driver has just written input_depth for its first layer.
Init ==
  /\ depth \in Depths /\ set_id = TRUE
  /\ w = ResetWriter
  /\ r = ResetReader
  /\ r_full = [b \in Buffers |-> FALSE]
  /\ mem = [n \in BankIds |-> [c \in Buffers \X (0 .. Half - 1) |-> Zero]]
  /\ port = [n \in BankIds |-> Zero]
  /\ smr = [n \in BankIds |-> [was_restart |-> FALSE, was_next |-> FALSE,
                               last_mem_addr |-> 0, last_data |-> Zero]]
  /\ taken = NoWord

-----------------------------------------------------------------------------
(* SequentialMemoryReader.elab                                             *)

\* The reader of bank n wraps after the words of a pixel that bank n holds.
limit(n) == (depth + Banks - 1 - n) \div Banks

prefetching(n) == smr[n].was_restart \/ smr[n].was_next

data(n) == IF prefetching(n) THEN port[n] ELSE smr[n].last_data

\* Readers are restarted when the buffer to read has just become full.
smr_restart == r_full[r.buf] /\ ~r.last_full

incremented_addr(n) ==
  IF smr[n].last_mem_addr = limit(n) - 1 THEN 0
  ELSE (smr[n].last_mem_addr + 1) % Half

\* Mutant: a restarted reader does not fetch its second word until it is asked.
mem_addr_no_prefetch(n) ==
  IF smr_restart THEN 0
  ELSE IF smr[n].was_next THEN incremented_addr(n)
  ELSE smr[n].last_mem_addr

mem_addr(n) ==
  IF smr_restart THEN 0
  ELSE IF prefetching(n) THEN incremented_addr(n)
  ELSE smr[n].last_mem_addr

-----------------------------------------------------------------------------
(* InputStore._elab_read                                                   *)

r_data == data(r.addr % Banks)

Fetch(r_next) ==
  /\ port' = [n \in BankIds |-> mem[n][<<r.buf, mem_addr(n)>>]]
  /\ smr' = [n \in BankIds |->
               [was_restart |-> smr_restart,
                was_next |-> r_next /\ r.ready /\ r.addr % Banks = n,
                last_mem_addr |-> mem_addr(n),
                last_data |-> data(n)]]
  /\ taken' = IF r_next /\ r.ready THEN r_data ELSE NoWord

\* Mutant: the read address runs on past the end of the pixel.
NextReadAddress_no_wrap(r_next) ==
  IF r_next /\ r.ready THEN r.addr + 1 ELSE r.addr

NextReadAddress(r_next) ==
  IF ~(r_next /\ r.ready) THEN r.addr
  ELSE IF r.addr = depth - 1 THEN 0 ELSE r.addr + 1

\* Mutant: r_ready stays high while the readers turn to the other buffer.
Read_ready_kept(r_next, r_finished) ==
  /\ Fetch(r_next)
  /\ r' = IF set_id THEN ResetReader
          ELSE IF r_finished THEN [ResetReader EXCEPT !.buf = 1 - r.buf, !.ready = r.ready]
          ELSE [r EXCEPT !.last_full = r_full[r.buf],
                         !.ready = r.ready \/ smr_restart,
                         !.addr = NextReadAddress(r_next)]

\* Mutant: last_full is not cleared when a buffer is finished.
Read_last_full_kept(r_next, r_finished) ==
  /\ Fetch(r_next)
  /\ r' = IF set_id THEN ResetReader
          ELSE IF r_finished
               THEN [ResetReader EXCEPT !.buf = 1 - r.buf, !.last_full = r_full[r.buf]]
          ELSE [r EXCEPT !.last_full = r_full[r.buf],
                         !.ready = r.ready \/ smr_restart,
                         !.addr = NextReadAddress(r_next)]

Read(r_next, r_finished) ==
  /\ Fetch(r_next)
  /\ r' = IF set_id THEN ResetReader
          ELSE IF r_finished THEN [ResetReader EXCEPT !.buf = 1 - r.buf]
          ELSE [r EXCEPT !.last_full = r_full[r.buf],
                         !.ready = r.ready \/ smr_restart,
                         !.addr = NextReadAddress(r_next)]

-----------------------------------------------------------------------------
(* InputStore._elab_write                                                  *)

w_ready == ~r_full[w.buf]

\* Mutant: the buffer is handed over before its last word is written.
completes_early(w_en) == w_en /\ w_ready /\ w.addr + 2 >= depth

completes(w_en) == w_en /\ w_ready /\ w.addr = depth - 1

Write(w_en, w_data) ==
  /\ mem' = IF w_en /\ w_ready
            THEN [mem EXCEPT ![w.addr % Banks][<<w.buf, w.addr \div Banks>>] = w_data]
            ELSE mem
  /\ w' = IF set_id THEN ResetWriter
          ELSE IF completes(w_en) THEN [buf |-> 1 - w.buf, addr |-> 0]
          ELSE IF w_en /\ w_ready THEN [w EXCEPT !.addr = @ + 1]
          ELSE w

\* The last assignment wins: the reader's over the writer's over restart's.
Handover(w_en, r_finished) ==
  r_full' = [b \in Buffers |->
    /\ ~(r_finished /\ b = r.buf)
    /\ \/ completes(w_en) /\ b = w.buf
       \/ r_full[b] /\ ~set_id]

-----------------------------------------------------------------------------

Clocked(w_en, w_data, r_next, r_finished) ==
  Write(w_en, w_data) /\ Handover(w_en, r_finished) /\ Read(r_next, r_finished)

\* Between two layers the driver writes the register: the sequencer is idle and
\* no word is being stored.
SetDepth(d) ==
  /\ ~set_id
  /\ depth' = d /\ set_id' = TRUE
  /\ Clocked(FALSE, Zero, FALSE, FALSE)

\* The cycle after it.  The driver sets other registers before it stores words.
Restart ==
  /\ set_id
  /\ set_id' = FALSE /\ UNCHANGED depth
  /\ Clocked(FALSE, Zero, FALSE, FALSE)

\* Any other cycle.  The sequencer finishes only what it was given to read.
Cycle(w_en, w_data, r_next, r_finished) ==
  /\ ~set_id
  /\ r_finished => r.ready
  /\ Clocked(w_en, w_data, r_next, r_finished)
  /\ UNCHANGED <<depth, set_id>>

Inputs ==
  \E w_en, r_next, r_finished \in BOOLEAN, w_data \in Words :
    Cycle(w_en, w_data, r_next, r_finished)

Next ==
  \/ \E d \in Depths : SetDepth(d)
  \/ Restart
  \/ Inputs

\* The clock runs; the CPU need not write the register again.
Spec == Init /\ [][Next]_vars /\ WF_vars(Restart \/ Inputs)

-----------------------------------------------------------------------------
(* Properties                                                              *)

\* The registers and memories hold values of their types.
TypeOK ==
  /\ depth \in Depths /\ set_id \in BOOLEAN
  /\ w \in [buf : Buffers, addr : 0 .. Banks * Half - 1]
  /\ r \in [buf : Buffers, addr : 0 .. Banks * Half - 1,
            last_full : BOOLEAN, ready : BOOLEAN]
  /\ r_full \in [Buffers -> BOOLEAN]
  /\ mem \in [BankIds -> [Buffers \X (0 .. Half - 1) -> Words]]
  /\ port \in [BankIds -> Words]
  /\ smr \in [BankIds -> [was_restart : BOOLEAN, was_next : BOOLEAN,
                          last_mem_addr : 0 .. Half - 1, last_data : Words]]
  /\ taken \in Words \cup {NoWord}

\* Reader and writer agree on whose turn each buffer is: a buffer is handed over
\* exactly once, in order, and r_ready is high only for a complete pixel.
BuffersAlternate ==
  /\ (r.buf = w.buf) <=> (r_full[0] = r_full[1])
  /\ (\E b \in Buffers : r_full[b]) => r_full[r.buf]
  /\ r.ready => r_full[r.buf]

\* Stored(b, k): the first k words of the pixel in buffer b, in their order.
Stored(b, k) == [i \in 1 .. k |-> mem[(i - 1) % Banks][<<b, (i - 1) \div Banks>>]]
Contents(b) == Stored(b, depth)

\* While r_ready is high, r_data is the word at the reader's position although it
\* was requested a cycle or more ago (the prefetch of SequentialMemoryReader).
PrefetchedData == r.ready /\ ~set_id => r_data = Contents(r.buf)[r.addr + 1]

\* Double buffering, banks and prefetch together are a queue of two pixels: the
\* sequencer reads complete pixels, in order, each word in its place, and a
\* word the store accepts is never lost.
Storing == IF set_id THEN <<>> ELSE Stored(w.buf, w.addr)
Full == IF set_id \/ ~r_full[r.buf] THEN <<>>
        ELSE IF r_full[1 - r.buf] THEN <<Contents(r.buf), Contents(1 - r.buf)>>
        ELSE <<Contents(r.buf)>>
Position == IF set_id THEN 0 ELSE r.addr
Queue == INSTANCE PixelQueue WITH partial <- Storing, pixels <- Full, pos <- Position
ImplementsQueue == Queue!Spec

\* A pixel that was stored completely is offered to the sequencer, unless the
\* layer is abandoned: the edge detector on `full` misses no handover.
PixelOffered == (\E b \in Buffers : r_full[b]) ~> (r.ready \/ set_id)
=============================================================================
