-------------------------- MODULE InputStoreProofs --------------------------
(***************************************************************************)
(* For every number of banks, memory depth and pixel size: the registers   *)
(* of the input store keep their types, the reader and the writer never    *)
(* meet in a buffer, and the reader is shown the word at its position      *)
(* although it was asked for before it was known to be wanted.             *)
(*                                                                         *)
(* And the store implements the queue of pixels: the buffers that are      *)
(* full, the oldest first, are its pixels, and the part of a buffer that   *)
(* has been written is the pixel being stored.  A cycle of the store is a  *)
(* cycle of the queue that stores a word if the store accepts it, and      *)
(* takes one if the reader is ready.                                       *)
(***************************************************************************)
EXTENDS InputStore, SequenceTheorems, TLAPS

\* An address is within the pixel, except in the cycle in which the store is
\* being restarted for pixels of another size.
AddressesOK == ~set_id => w.addr < depth /\ r.addr < depth

IInv == TypeOK /\ AddressesOK /\ BuffersAlternate

-----------------------------------------------------------------------------

\* A buffer has room for a word.
LEMMA HalfIsPositive == Half \in Nat \ {0}
BY ConstantsAssumption

\* The pixel sizes fit the address registers.
LEMMA DepthsFit == \A d \in Depths : d \in 1 .. Banks * Half - 1
BY ConstantsAssumption

\* The initial state, in which the store is about to be restarted.
LEMMA InitIInv == Init => IInv
<1> SUFFICES ASSUME Init PROVE IInv
    OBVIOUS
<1>1. Banks * Half \in Nat \ {0}
  BY ConstantsAssumption, HalfIsPositive
<1>2. 0 \in 0 .. Banks * Half - 1 /\ 0 \in 0 .. Half - 1
  BY <1>1, HalfIsPositive
<1>3. TypeOK
  BY <1>2, ConstantsAssumption DEF Init, TypeOK, ResetReader, ResetWriter, Buffers
<1>4. AddressesOK /\ BuffersAlternate
  BY DEF Init, AddressesOK, BuffersAlternate, ResetReader, ResetWriter, Buffers
<1> QED
  BY <1>3, <1>4 DEF IInv

\* The address a sequential reader sends to its memory is one of the memory's.
LEMMA ReaderAddress ==
  ASSUME TypeOK, NEW n \in BankIds
  PROVE  mem_addr(n) \in 0 .. Half - 1
<1>1. smr[n].last_mem_addr \in 0 .. Half - 1
  BY DEF TypeOK
<1>2. (smr[n].last_mem_addr + 1) % Half \in 0 .. Half - 1
  BY <1>1, HalfIsPositive
<1> QED
  BY <1>1, <1>2, HalfIsPositive DEF mem_addr, incremented_addr

\* The reader's half of a cycle keeps the types of what it changes.
LEMMA FetchTypes ==
  ASSUME TypeOK, NEW r_next \in BOOLEAN, Fetch(r_next)
  PROVE  /\ port' \in [BankIds -> Words]
         /\ smr' \in [BankIds -> [was_restart : BOOLEAN, was_next : BOOLEAN,
                                  last_mem_addr : 0 .. Half - 1, last_data : Words]]
         /\ taken' \in Words \cup {NoWord}
<1>1. \A n \in BankIds : data(n) \in Words
  BY DEF TypeOK, data
<1>2. \A n \in BankIds : mem[n][<<r.buf, mem_addr(n)>>] \in Words
  <2> SUFFICES ASSUME NEW n \in BankIds PROVE mem[n][<<r.buf, mem_addr(n)>>] \in Words
    OBVIOUS
  <2>1. mem[n] \in [Buffers \X (0 .. Half - 1) -> Words] /\ r.buf \in Buffers
    BY DEF TypeOK
  <2>2. <<r.buf, mem_addr(n)>> \in Buffers \X (0 .. Half - 1)
    BY <2>1, ReaderAddress
  <2> QED
    BY <2>1, <2>2
<1>3. smr_restart \in BOOLEAN
  BY DEF TypeOK, smr_restart
<1>4. r.addr % Banks \in BankIds
  BY ConstantsAssumption DEF TypeOK, BankIds
<1>5. port' \in [BankIds -> Words]
  BY <1>2 DEF Fetch
<1>6. \A n \in BankIds : mem_addr(n) \in 0 .. Half - 1
  BY ReaderAddress
<1>7. \A n \in BankIds : (r_next /\ r.ready /\ r.addr % Banks = n) \in BOOLEAN
  OBVIOUS
<1>8. smr' \in [BankIds -> [was_restart : BOOLEAN, was_next : BOOLEAN,
                            last_mem_addr : 0 .. Half - 1, last_data : Words]]
  BY <1>1, <1>3, <1>6, <1>7 DEF Fetch
<1>9. taken' \in Words \cup {NoWord}
  BY <1>1, <1>4 DEF Fetch, r_data
<1> QED
  BY <1>5, <1>8, <1>9

\* The reader's registers.
LEMMA ReadTypes ==
  ASSUME IInv, NEW r_next \in BOOLEAN, NEW r_finished \in BOOLEAN,
         Read(r_next, r_finished), set_id => ~r_next
  PROVE  /\ r' \in [buf : Buffers, addr : 0 .. Banks * Half - 1,
                    last_full : BOOLEAN, ready : BOOLEAN]
         /\ ~set_id => r'.addr < depth
<1> USE DEF IInv
<1>1. depth \in 1 .. Banks * Half - 1 /\ Banks * Half \in Nat
  BY DepthsFit, ConstantsAssumption, HalfIsPositive DEF TypeOK
<1>2. r \in [buf : Buffers, addr : 0 .. Banks * Half - 1,
             last_full : BOOLEAN, ready : BOOLEAN]
  BY DEF TypeOK
<1>3. NextReadAddress(r_next) \in 0 .. Banks * Half - 1
  <2>1. CASE r_next /\ r.ready
    BY <2>1, <1>1, <1>2 DEF NextReadAddress, AddressesOK
  <2>2. CASE ~(r_next /\ r.ready)
    BY <2>2, <1>2 DEF NextReadAddress
  <2> QED
    BY <2>1, <2>2
<1>4. ~set_id => NextReadAddress(r_next) < depth
  BY <1>1, <1>2 DEF NextReadAddress, AddressesOK
<1>5. r_full[r.buf] \in BOOLEAN /\ smr_restart \in BOOLEAN
  BY DEF TypeOK, smr_restart
<1>6. 1 - r.buf \in Buffers
  BY <1>2 DEF Buffers
<1>7. CASE set_id
  BY <1>7, <1>1 DEF Read, ResetReader, Buffers
<1>8. CASE ~set_id /\ r_finished
  <2>1. r' = [ResetReader EXCEPT !.buf = 1 - r.buf]
    BY <1>8 DEF Read
  <2>2. r' = [buf |-> 1 - r.buf, addr |-> 0, last_full |-> FALSE, ready |-> FALSE]
    BY <2>1 DEF ResetReader
  <2> QED
    BY <2>2, <1>1, <1>6
<1>9. CASE ~set_id /\ ~r_finished
  <2>1. r' = [r EXCEPT !.last_full = r_full[r.buf], !.ready = r.ready \/ smr_restart,
                       !.addr = NextReadAddress(r_next)]
    BY <1>9 DEF Read
  <2>2. r' = [buf |-> r.buf, addr |-> NextReadAddress(r_next),
              last_full |-> r_full[r.buf], ready |-> r.ready \/ smr_restart]
    BY <2>1, <1>2
  <2>3. (r.ready \/ smr_restart) \in BOOLEAN
    OBVIOUS
  <2> QED
    BY <1>2, <1>3, <1>4, <1>5, <2>2, <2>3
<1> QED
  BY <1>7, <1>8, <1>9 DEF TypeOK

\* The writer's registers and the memories.
LEMMA WriteTypes ==
  ASSUME IInv, NEW w_en \in BOOLEAN, NEW w_data \in Words,
         Write(w_en, w_data), set_id => ~w_en
  PROVE  /\ w' \in [buf : Buffers, addr : 0 .. Banks * Half - 1]
         /\ ~set_id => w'.addr < depth
         /\ mem' \in [BankIds -> [Buffers \X (0 .. Half - 1) -> Words]]
<1> USE DEF IInv
<1>1. depth \in 1 .. Banks * Half - 1 /\ Banks * Half \in Nat
  BY DepthsFit, ConstantsAssumption, HalfIsPositive DEF TypeOK
<1>2. w \in [buf : Buffers, addr : 0 .. Banks * Half - 1] /\ 1 - w.buf \in Buffers
  BY DEF TypeOK, Buffers
<1>3. mem' \in [BankIds -> [Buffers \X (0 .. Half - 1) -> Words]]
  <2> DEFINE bank == w.addr % Banks
             cell == <<w.buf, w.addr \div Banks>>
  <2>1. bank \in BankIds
    BY <1>2, ConstantsAssumption DEF BankIds
  <2>2. mem \in [BankIds -> [Buffers \X (0 .. Half - 1) -> Words]]
    BY DEF TypeOK
  <2>3. mem[bank] \in [Buffers \X (0 .. Half - 1) -> Words]
    BY <2>1, <2>2
  <2> HIDE DEF bank, cell
  <2>4. [mem[bank] EXCEPT ![cell] = w_data] \in [Buffers \X (0 .. Half - 1) -> Words]
    BY <2>3
  <2>5. [mem EXCEPT ![bank] = [mem[bank] EXCEPT ![cell] = w_data]]
          \in [BankIds -> [Buffers \X (0 .. Half - 1) -> Words]]
    BY <2>2, <2>4
  <2>6. mem' = mem \/ mem' = [mem EXCEPT ![bank] = [mem[bank] EXCEPT ![cell] = w_data]]
    BY DEF Write, bank, cell
  <2> QED
    BY <2>2, <2>5, <2>6
<1>4. w' \in [buf : Buffers, addr : 0 .. Banks * Half - 1] /\ (~set_id => w'.addr < depth)
  <2>1. w' = IF set_id THEN ResetWriter
             ELSE IF completes(w_en) THEN [buf |-> 1 - w.buf, addr |-> 0]
             ELSE IF w_en /\ w_ready THEN [w EXCEPT !.addr = @ + 1] ELSE w
    BY DEF Write
  <2>2. CASE set_id
    BY <2>1, <2>2, <1>1 DEF ResetWriter, Buffers
  <2>3. CASE ~set_id /\ completes(w_en)
    BY <2>1, <2>3, <1>1, <1>2
  <2>4. CASE ~set_id /\ ~completes(w_en) /\ w_en /\ w_ready
    <3>1. w.addr + 1 < depth
      BY <2>4, <1>1, <1>2 DEF completes, AddressesOK
    <3>2. w' = [w EXCEPT !.addr = w.addr + 1]
      BY <2>1, <2>4
    <3> QED
      BY <3>1, <3>2, <1>1, <1>2
  <2>5. CASE ~set_id /\ ~completes(w_en) /\ ~(w_en /\ w_ready)
    BY <2>1, <2>5, <1>2 DEF AddressesOK
  <2> QED
    BY <2>2, <2>3, <2>4, <2>5
<1> QED
  BY <1>3, <1>4

\* A cycle hands buffers over in turn.
LEMMA Alternates ==
  ASSUME IInv, NEW w_en \in BOOLEAN, NEW w_data \in Words,
         NEW r_next \in BOOLEAN, NEW r_finished \in BOOLEAN,
         Clocked(w_en, w_data, r_next, r_finished),
         r_finished => r.ready, set_id => ~w_en /\ ~r_finished
  PROVE  BuffersAlternate'
<1> USE DEF IInv
<1>1. /\ r_full \in [Buffers -> BOOLEAN]
      /\ w \in [buf : Buffers, addr : 0 .. Banks * Half - 1]
      /\ r \in [buf : Buffers, addr : 0 .. Banks * Half - 1,
                last_full : BOOLEAN, ready : BOOLEAN]
  BY DEF TypeOK
<1>2. r_full' = [b \in Buffers |->
        /\ ~(r_finished /\ b = r.buf)
        /\ \/ completes(w_en) /\ b = w.buf
           \/ r_full[b] /\ ~set_id]
  BY <1>1 DEF Clocked, Handover
<1>3. completes(w_en) => ~r_full[w.buf] /\ ~set_id
  BY DEF completes, w_ready
<1>4. w'.buf = IF set_id THEN 0 ELSE IF completes(w_en) THEN 1 - w.buf ELSE w.buf
  BY <1>1 DEF Clocked, Write, ResetWriter
<1>5. r'.buf = IF set_id THEN 0 ELSE IF r_finished THEN 1 - r.buf ELSE r.buf
  BY <1>1 DEF Clocked, Read, ResetReader
<1>6. r'.ready => ~set_id /\ ~r_finished /\ (r.ready \/ smr_restart)
  BY <1>1 DEF Clocked, Read, ResetReader
<1>7. CASE set_id
  BY <1>7, <1>1, <1>2, <1>3, <1>4, <1>5, <1>6 DEF BuffersAlternate, Buffers
<1>8. CASE ~set_id
  <2>1. r_finished => r_full[r.buf]
    BY DEF BuffersAlternate
  <2>2. r'.ready => r_full[r.buf] /\ ~r_finished
    BY <1>6 DEF smr_restart, BuffersAlternate
  <2>3. r.buf \in {0, 1} /\ w.buf \in {0, 1}
    BY <1>1 DEF Buffers
  <2>4. (r'.buf = w'.buf) <=> (r_full'[0] = r_full'[1])
    BY <1>8, <1>1, <1>2, <1>3, <1>4, <1>5, <2>1, <2>3 DEF BuffersAlternate, Buffers
  <2>5. (\E b \in Buffers : r_full'[b]) => r_full'[r'.buf]
    BY <1>8, <1>1, <1>2, <1>3, <1>4, <1>5, <2>1, <2>3 DEF BuffersAlternate, Buffers
  <2>6. r'.ready => r_full'[r'.buf]
    BY <1>8, <1>2, <1>3, <1>5, <2>2, <2>3 DEF Buffers
  <2> QED
    BY <2>4, <2>5, <2>6 DEF BuffersAlternate
<1> QED
  BY <1>7, <1>8

\* What a cycle changes besides the depth register and its pulse.
LEMMA ClockedStep ==
  ASSUME IInv, NEW w_en \in BOOLEAN, NEW w_data \in Words,
         NEW r_next \in BOOLEAN, NEW r_finished \in BOOLEAN,
         Clocked(w_en, w_data, r_next, r_finished),
         r_finished => r.ready, set_id => ~w_en /\ ~r_finished /\ ~r_next,
         depth' \in Depths, set_id' \in BOOLEAN,
         ~set_id' => set_id \/ depth' = depth
  PROVE  IInv'
<1>1. r_full' \in [Buffers -> BOOLEAN]
  BY DEF Clocked, Handover, IInv, TypeOK
<1>2. TypeOK'
  BY <1>1, FetchTypes, ReadTypes, WriteTypes DEF Clocked, Read, TypeOK, IInv
<1>3. AddressesOK'
  <2>1. ~set_id => r'.addr < depth /\ w'.addr < depth
    BY ReadTypes, WriteTypes DEF Clocked
  <2>2. set_id => r'.addr = 0 /\ w'.addr = 0
    BY DEF Clocked, Read, Write, ResetReader, ResetWriter
  <2>3. 0 < depth'
    BY DepthsFit
  <2> QED
    BY <2>1, <2>2, <2>3 DEF AddressesOK
<1> QED
  BY <1>2, <1>3, Alternates DEF IInv

\* Every action of the specification is such a cycle.
LEMMA NextStep == IInv /\ [Next]_vars => IInv'
<1> SUFFICES ASSUME IInv, [Next]_vars PROVE IInv'
    OBVIOUS
<1>1. Zero \in Words /\ depth \in Depths /\ set_id \in BOOLEAN
  BY ConstantsAssumption DEF IInv, TypeOK
<1>2. ASSUME NEW d \in Depths, SetDepth(d) PROVE IInv'
  BY <1>1, <1>2, ClockedStep DEF SetDepth
<1>3. CASE Restart
  BY <1>1, <1>3, ClockedStep DEF Restart
<1>4. ASSUME NEW w_en \in BOOLEAN, NEW r_next \in BOOLEAN, NEW r_finished \in BOOLEAN,
             NEW w_data \in Words, Cycle(w_en, w_data, r_next, r_finished)
      PROVE  IInv'
  BY <1>1, <1>4, ClockedStep DEF Cycle
<1>5. CASE UNCHANGED vars
  BY <1>5 DEF vars, IInv, TypeOK, AddressesOK, BuffersAlternate
<1> QED
  BY <1>2, <1>3, <1>4, <1>5 DEF Next, Inputs

\* The inductive invariant, for every value of the constants.
THEOREM Invariance == Spec => []IInv
<1>1. Init => IInv
  BY InitIInv
<1>2. IInv /\ [Next]_vars => IInv'
  BY NextStep
<1> QED
  BY <1>1, <1>2, PTL DEF Spec

\* The registers and memories of the input store hold values of their types.
THEOREM TypeCorrect == Spec => []TypeOK
<1>1. IInv => TypeOK
  BY DEF IInv
<1> QED
  BY <1>1, Invariance, PTL

\* Reader and writer take the buffers in turn, and only a complete pixel is read.
THEOREM BuffersTakenInTurn == Spec => []BuffersAlternate
<1>1. IInv => BuffersAlternate
  BY DEF IInv
<1> QED
  BY <1>1, Invariance, PTL
-----------------------------------------------------------------------------
(* The prefetch.  The words of a pixel go round the banks; a reader counts *)
(* only those of its own.                                                  *)

\* The words with an index below a that are in bank n.
BankWords(n, a) == (a + Banks - 1 - n) \div Banks

\* The address in bank n of the first word that has not been read yet, and the one
\* that follows an address, in a pixel that is read over and over.
NextWord(n) == IF BankWords(n, r.addr) = limit(n) THEN 0 ELSE BankWords(n, r.addr)
Following(n, x) == IF x = limit(n) - 1 THEN 0 ELSE x + 1

\* A reader has its next word on the port if it has just moved on; otherwise it
\* holds that word, and the one after it is on the port.
ReaderOK(n) ==
  /\ port[n] = mem[n][<<r.buf, smr[n].last_mem_addr>>]
  /\ prefetching(n) => smr[n].last_mem_addr = NextWord(n)
  /\ ~prefetching(n) =>
       /\ smr[n].last_data = mem[n][<<r.buf, NextWord(n)>>]
       /\ smr[n].last_mem_addr = Following(n, NextWord(n))

Prefetched ==
  /\ r.ready => r.last_full
  /\ ~r.ready => r.addr = 0
  /\ r.ready /\ ~set_id => \A n \in BankIds : n < depth => ReaderOK(n)

PInv == IInv /\ Prefetched

\* Quotient and remainder, for a divisor that is not known.
LEMMA Division ==
  ASSUME NEW x \in Nat, NEW b \in Nat \ {0}
  PROVE  x \div b \in Nat /\ x % b \in 0 .. b - 1 /\ x = b * (x \div b) + (x % b)
BY SMT

\* A number's quotient, given the number as a multiple and a rest.
LEMMA Quotient ==
  ASSUME NEW b \in Nat \ {0}, NEW q \in Nat, NEW m \in 0 .. b - 1
  PROVE  (b * q + m) \div b = q
<1> DEFINE x == b * q + m
           d == x \div b
           s == x % b
<1>1. x \in Nat
  BY SMT
<1>2. d \in Nat /\ s \in 0 .. b - 1 /\ x = b * d + s
  BY <1>1, Division
<1>3. b * d + s = b * q + m
  BY <1>2
<1> HIDE DEF x, d, s
<1>4. ASSUME d < q PROVE FALSE
  <2>1. b * (d + 1) <= b * q
    BY <1>4, <1>2, SMT
  <2> QED
    BY <2>1, <1>2, <1>3, SMT
<1>5. ASSUME q < d PROVE FALSE
  <2>1. b * (q + 1) <= b * d
    BY <1>5, <1>2, SMT
  <2> QED
    BY <2>1, <1>2, <1>3, SMT
<1>6. ~(d < q) /\ ~(q < d)
  BY <1>4, <1>5
<1>7. d = q
  BY <1>2, <1>6, SMT
<1> QED
  BY <1>7 DEF d, x

\* Quotients are in the order of the numbers divided.
LEMMA QuotientGrows ==
  ASSUME NEW b \in Nat \ {0}, NEW x \in Nat, NEW y \in Nat, x <= y
  PROVE  x \div b <= y \div b
<1> DEFINE p == x \div b
           q == y \div b
<1>1. /\ p \in Nat /\ x % b \in 0 .. b - 1 /\ x = b * p + (x % b)
      /\ q \in Nat /\ y % b \in 0 .. b - 1 /\ y = b * q + (y % b)
  BY Division
<1> HIDE DEF p, q
<1>2. ASSUME q < p PROVE FALSE
  <2>1. b * (q + 1) <= b * p
    BY <1>2, <1>1, SMT
  <2>2. b * (q + 1) = b * q + b
    BY <1>1, SMT
  <2> QED
    BY <2>1, <2>2, <1>1, SMT
<1>3. p <= q
  BY <1>1, <1>2, SMT
<1> QED
  BY <1>3 DEF p, q

\* One more word is one more in its own bank and in no other.
LEMMA BankWordsStep ==
  ASSUME NEW n \in BankIds, NEW a \in Nat
  PROVE  /\ BankWords(n, a) \in Nat
         /\ BankWords(n, a + 1) = BankWords(n, a) + IF a % Banks = n THEN 1 ELSE 0
         /\ a % Banks = n => BankWords(n, a) = a \div Banks
<1> DEFINE q == a \div Banks
           m == a % Banks
<1>1. Banks \in Nat \ {0} /\ n \in 0 .. Banks - 1
  BY ConstantsAssumption DEF BankIds
<1>2. q \in Nat /\ m \in 0 .. Banks - 1 /\ a = Banks * q + m
  BY <1>1, Division
<1> HIDE DEF q, m
<1>3. q + 1 \in Nat /\ Banks * (q + 1) = Banks * q + Banks /\ Banks * q \in Nat
  BY <1>1, <1>2, SMT
<1>4. CASE m = n
  <2>1. a + Banks - 1 - n = Banks * q + (Banks - 1) /\ Banks - 1 \in 0 .. Banks - 1
    BY <1>1, <1>2, <1>3, <1>4, SMT
  <2>2. a + 1 + Banks - 1 - n = Banks * (q + 1) + 0 /\ 0 \in 0 .. Banks - 1
    BY <1>1, <1>2, <1>3, <1>4, SMT
  <2>3. BankWords(n, a) = q
    BY <2>1, <1>1, <1>2, Quotient DEF BankWords
  <2>4. BankWords(n, a + 1) = q + 1
    BY <2>2, <1>1, <1>3, Quotient DEF BankWords
  <2> QED
    BY <2>3, <2>4, <1>2, <1>4 DEF m, q
<1>5. CASE m > n
  <2>1. a + Banks - 1 - n = Banks * (q + 1) + (m - n - 1) /\ m - n - 1 \in 0 .. Banks - 1
    BY <1>1, <1>2, <1>3, <1>5, SMT
  <2>2. a + 1 + Banks - 1 - n = Banks * (q + 1) + (m - n) /\ m - n \in 0 .. Banks - 1
    BY <1>1, <1>2, <1>3, <1>5, SMT
  <2>3. BankWords(n, a) = q + 1
    BY <2>1, <1>1, <1>3, Quotient DEF BankWords
  <2>4. BankWords(n, a + 1) = q + 1
    BY <2>2, <1>1, <1>3, Quotient DEF BankWords
  <2>5. m # n
    BY <1>1, <1>2, <1>5, SMT
  <2> QED
    BY <2>3, <2>4, <2>5, <1>3, SMT DEF m
<1>6. CASE m < n
  <2>1. a + Banks - 1 - n = Banks * q + (Banks - 1 - n + m) /\ Banks - 1 - n + m \in 0 .. Banks - 1
    BY <1>1, <1>2, <1>3, <1>6, SMT
  <2>2. a + 1 + Banks - 1 - n = Banks * q + (Banks - n + m) /\ Banks - n + m \in 0 .. Banks - 1
    BY <1>1, <1>2, <1>3, <1>6, SMT
  <2>3. BankWords(n, a) = q
    BY <2>1, <1>1, <1>2, Quotient DEF BankWords
  <2>4. BankWords(n, a + 1) = q
    BY <2>2, <1>1, <1>2, Quotient DEF BankWords
  <2>5. m # n
    BY <1>1, <1>2, <1>6, SMT
  <2> QED
    BY <2>3, <2>4, <2>5, <1>2, SMT DEF m
<1> QED
  BY <1>1, <1>2, <1>4, <1>5, <1>6, SMT

\* What a bank holds of a pixel: at least one word if its number is below the
\* depth, at most the words of a buffer, and never fewer than have been read.
LEMMA LimitBounds ==
  ASSUME TypeOK, NEW n \in BankIds, n < depth
  PROVE  /\ limit(n) \in 1 .. Half
         /\ BankWords(n, 0) = 0
         /\ \A a \in 0 .. depth : BankWords(n, a) \in 0 .. limit(n)
<1>1. /\ Banks \in Nat \ {0} /\ n \in 0 .. Banks - 1 /\ Half \in Nat \ {0}
      /\ depth \in Nat /\ depth <= Banks * Half - 1
  BY ConstantsAssumption, DepthsFit, SMT DEF BankIds, TypeOK
<1>2. limit(n) = BankWords(n, depth)
  BY DEF limit, BankWords
<1>3. BankWords(n, 0) = 0
  <2>1. 0 + Banks - 1 - n = Banks * 0 + (Banks - 1 - n) /\ Banks - 1 - n \in 0 .. Banks - 1
    BY <1>1, SMT
  <2> QED
    BY <2>1, <1>1, Quotient DEF BankWords
<1>4. ASSUME NEW a \in 0 .. depth PROVE BankWords(n, a) \in 0 .. limit(n)
  <2>1. /\ a + Banks - 1 - n \in Nat /\ depth + Banks - 1 - n \in Nat
        /\ a + Banks - 1 - n <= depth + Banks - 1 - n
    BY <1>1, SMT
  <2>2. BankWords(n, a) <= limit(n)
    BY <2>1, <1>1, <1>2, QuotientGrows DEF BankWords
  <2>3. BankWords(n, a) \in Nat /\ limit(n) \in Nat
    BY <1>1, <1>2, BankWordsStep
  <2> QED
    BY <2>2, <2>3, SMT
<1>5. limit(n) <= Half
  <2>1. depth + Banks - 1 - n <= Banks * Half + (Banks - 1) /\ Banks * Half \in Nat
    BY <1>1, SMT
  <2>2. (depth + Banks - 1 - n) \div Banks <= (Banks * Half + (Banks - 1)) \div Banks
    BY <2>1, <1>1, QuotientGrows, SMT
  <2>3. (Banks * Half + (Banks - 1)) \div Banks = Half
    BY <1>1, Quotient, SMT
  <2> QED
    BY <2>2, <2>3, <1>2 DEF BankWords
<1>6. limit(n) >= 1
  <2>1. n + 1 \in 0 .. depth /\ n \in Nat
    BY <1>1, SMT
  <2>2. n % Banks = n /\ n \div Banks = 0
    <3>1. n = Banks * 0 + n
      BY <1>1, SMT
    <3>2. n \div Banks = 0
      BY <3>1, <1>1, Quotient
    <3>3. n = Banks * 0 + (n % Banks) /\ n % Banks \in Nat
      BY <3>2, <1>1, <2>1, Division
    <3> QED
      BY <3>2, <3>3, <1>1, SMT
  <2>3. BankWords(n, n + 1) = 1
    BY <2>1, <2>2, BankWordsStep, SMT
  <2> QED
    BY <1>4, <2>1, <2>3, SMT
<1>7. limit(n) \in Nat
  BY <1>1, <1>2, BankWordsStep
<1> QED
  BY <1>3, <1>4, <1>5, <1>6, <1>7, <1>1, SMT

\* A read moves the position of one bank on, and of no other.
LEMMA PositionsMoveOn ==
  ASSUME TypeOK, r.addr < depth, NEW n \in BankIds, n < depth,
         NEW r_next \in BOOLEAN, depth' = depth, r.ready, r'.addr = NextReadAddress(r_next)
  PROVE  /\ NextWord(n) \in 0 .. limit(n) - 1
         /\ NextWord(n)' = IF r_next /\ r.addr % Banks = n
                           THEN Following(n, NextWord(n)) ELSE NextWord(n)
<1> DEFINE a == r.addr
           c == BankWords(n, a)
           c2 == BankWords(n, a + 1)
<1>1. a \in Nat /\ depth \in Nat /\ a + 1 \in 0 .. depth /\ a \in 0 .. depth
  BY DepthsFit, ConstantsAssumption, HalfIsPositive, SMT DEF TypeOK
<1>2. /\ c2 = c + IF a % Banks = n THEN 1 ELSE 0
      /\ c \in 0 .. limit(n) /\ c2 \in 0 .. limit(n) /\ limit(n) \in 1 .. Half
      /\ BankWords(n, 0) = 0
  BY <1>1, BankWordsStep, LimitBounds
<1>3. limit(n)' = limit(n) /\ (BankWords(n, depth) = limit(n))
  BY DEF limit, BankWords
<1>4. NextWord(n) = IF c = limit(n) THEN 0 ELSE c
  BY DEF NextWord
<1>5. NextWord(n)' = IF BankWords(n, r'.addr) = limit(n) THEN 0 ELSE BankWords(n, r'.addr)
  BY <1>3 DEF NextWord, BankWords
<1>6. r'.addr = IF ~r_next THEN a ELSE IF a = depth - 1 THEN 0 ELSE a + 1
  BY DEF NextReadAddress
<1>7. limit(n) \in Nat /\ c \in Nat /\ c2 \in Nat /\ Half \in Nat
  BY <1>2, HalfIsPositive, SMT
<1> HIDE DEF a, c, c2
<1>8. NextWord(n) \in 0 .. limit(n) - 1
  BY <1>2, <1>4, <1>7, SMT
<1>9. CASE ~r_next
  BY <1>9, <1>4, <1>5, <1>6, <1>8 DEF a, c
<1>10. CASE r_next /\ a = depth - 1
  <2>1. c2 = limit(n)
    BY <1>10, <1>1, <1>3, SMT DEF c2
  <2>2. NextWord(n)' = 0
    BY <1>10, <1>2, <1>5, <1>6, <1>7, SMT
  <2>3. CASE a % Banks = n
    <3>1. c = limit(n) - 1 /\ c # limit(n)
      BY <2>1, <2>3, <1>2, <1>7, SMT
    <3>2. NextWord(n) = limit(n) - 1
      BY <3>1, <1>4
    <3>3. Following(n, NextWord(n)) = 0
      BY <3>2 DEF Following
    <3> QED
      BY <3>3, <2>2, <2>3, <1>8, <1>10 DEF a
  <2>4. CASE a % Banks # n
    <3>1. c = limit(n)
      BY <2>1, <2>4, <1>2, <1>7, SMT
    <3>2. NextWord(n) = 0
      BY <3>1, <1>4
    <3> QED
      BY <3>2, <2>2, <2>4, <1>8 DEF a
  <2> QED
    BY <2>3, <2>4
<1>11. CASE r_next /\ a # depth - 1
  <2>1. NextWord(n)' = IF c2 = limit(n) THEN 0 ELSE c2
    BY <1>11, <1>5, <1>6 DEF c2
  <2>2. a % Banks = n => c2 = c + 1 /\ c # limit(n)
    BY <1>2, <1>7, SMT
  <2>3. a % Banks = n => NextWord(n)' = Following(n, NextWord(n))
    BY <2>1, <2>2, <1>4, <1>7, SMT DEF Following
  <2>4. a % Banks # n => NextWord(n)' = NextWord(n)
    BY <2>1, <1>2, <1>4, <1>7, SMT
  <2> QED
    BY <1>8, <1>11, <2>3, <2>4 DEF a
<1> QED
  BY <1>8, <1>9, <1>10, <1>11

\* What a reader shows and where it fetches, when its registers are as they should be.
LEMMA ReaderShows ==
  ASSUME TypeOK, r.addr < depth, NEW n \in BankIds, n < depth, ReaderOK(n), ~smr_restart,
         NextWord(n) \in 0 .. limit(n) - 1
  PROVE  /\ data(n) = mem[n][<<r.buf, NextWord(n)>>]
         /\ mem_addr(n) = Following(n, NextWord(n))
<1>1. CASE prefetching(n)
  <2>1. smr[n].last_mem_addr = NextWord(n)
    BY <1>1 DEF ReaderOK
  <2>2. limit(n) \in 1 .. Half
    BY LimitBounds
  <2>3. NextWord(n) # limit(n) - 1 => (NextWord(n) + 1) % Half = NextWord(n) + 1
    <3> SUFFICES ASSUME NextWord(n) # limit(n) - 1
                 PROVE  (NextWord(n) + 1) % Half = NextWord(n) + 1
      OBVIOUS
    <3> DEFINE x == NextWord(n) + 1
    <3>1. x \in 0 .. Half - 1 /\ x \in Nat /\ Half \in Nat \ {0}
      BY <2>2, HalfIsPositive, SMT
    <3> HIDE DEF x
    <3>2. x % Half = x
      BY <3>1, SMT
    <3> QED
      BY <3>2 DEF x
  <2>4. incremented_addr(n) = Following(n, NextWord(n))
    BY <2>1, <2>3 DEF incremented_addr, Following
  <2>5. data(n) = port[n]
    BY <1>1 DEF data
  <2> QED
    BY <1>1, <2>1, <2>4, <2>5 DEF ReaderOK, mem_addr
<1>2. CASE ~prefetching(n)
  BY <1>2 DEF ReaderOK, data, mem_addr
<1> QED
  BY <1>1, <1>2

\* A word is never stored in the buffer that is being read.
LEMMA ReadBufferKept ==
  ASSUME IInv, NEW w_en \in BOOLEAN, NEW w_data \in Words, Write(w_en, w_data),
         r_full[r.buf], NEW n \in BankIds, NEW x \in 0 .. Half - 1
  PROVE  mem'[n][<<r.buf, x>>] = mem[n][<<r.buf, x>>]
<1>1. CASE w_en /\ w_ready
  <2>1. w.buf # r.buf
    BY <1>1 DEF w_ready
  <2>2. mem' = [mem EXCEPT ![w.addr % Banks][<<w.buf, w.addr \div Banks>>] = w_data]
    BY <1>1 DEF Write
  <2>3. <<w.buf, w.addr \div Banks>> # <<r.buf, x>>
    BY <2>1
  <2>4. /\ mem \in [BankIds -> [Buffers \X (0 .. Half - 1) -> Words]]
        /\ mem[n] \in [Buffers \X (0 .. Half - 1) -> Words]
    BY DEF IInv, TypeOK
  <2> DEFINE cell == <<w.buf, w.addr \div Banks>>
             bank == w.addr % Banks
  <2>5. mem'[n] = IF n = bank THEN [mem[n] EXCEPT ![cell] = w_data] ELSE mem[n]
    BY <2>2, <2>4
  <2> HIDE DEF cell, bank
  <2>6. <<r.buf, x>> \in Buffers \X (0 .. Half - 1)
    BY DEF IInv, TypeOK
  <2> QED
    BY <2>3, <2>4, <2>5, <2>6 DEF cell
<1>2. CASE ~(w_en /\ w_ready)
  BY <1>2 DEF Write
<1> QED
  BY <1>1, <1>2

\* The reader's half of a cycle: a restarted reader fetches its first word, one that
\* was read moves on, and the others stay.
LEMMA ReadersKept ==
  ASSUME PInv, NEW w_en \in BOOLEAN, NEW w_data \in Words, NEW r_next \in BOOLEAN,
         Clocked(w_en, w_data, r_next, FALSE), ~set_id, depth' = depth,
         r'.ready, NEW n \in BankIds, n < depth
  PROVE  ReaderOK(n)'
<1> USE DEF PInv, IInv
<1>1. r' = [r EXCEPT !.last_full = r_full[r.buf], !.ready = r.ready \/ smr_restart,
                     !.addr = NextReadAddress(r_next)]
  BY DEF Clocked, Read
<1>2. /\ r'.buf = r.buf /\ r'.addr = NextReadAddress(r_next)
      /\ r.ready \/ smr_restart
  BY <1>1 DEF TypeOK
<1>3. r_full[r.buf]
  BY <1>2 DEF BuffersAlternate, smr_restart
<1>4. /\ port'[n] = mem[n][<<r.buf, mem_addr(n)>>]
      /\ smr'[n] = [was_restart |-> smr_restart,
                    was_next |-> r_next /\ r.ready /\ r.addr % Banks = n,
                    last_mem_addr |-> mem_addr(n), last_data |-> data(n)]
  BY DEF Clocked, Read, Fetch
<1>5. \A x \in 0 .. Half - 1 : mem'[n][<<r'.buf, x>>] = mem[n][<<r.buf, x>>]
  BY <1>2, <1>3, ReadBufferKept DEF Clocked
<1>6. port'[n] = mem'[n][<<r'.buf, smr'[n].last_mem_addr>>]
  BY <1>4, <1>5, ReaderAddress
<1>7. prefetching(n)' = (smr_restart \/ (r_next /\ r.ready /\ r.addr % Banks = n))
  <2>1. smr'[n].was_restart = smr_restart
    BY <1>4
  <2>2. smr'[n].was_next = (r_next /\ r.ready /\ r.addr % Banks = n)
    BY <1>4
  <2> QED
    BY <2>1, <2>2, Zenon DEF prefetching
<1>8. limit(n) \in 1 .. Half /\ BankWords(n, 0) = 0 /\ limit(n)' = limit(n)
  BY LimitBounds DEF limit
<1>9. CASE smr_restart
  <2>1. ~r.ready /\ r.addr = 0
    BY <1>9 DEF smr_restart, Prefetched
  <2>2. r'.addr = 0
    BY <2>1, <1>2 DEF NextReadAddress
  <2>3. NextWord(n)' = 0
    BY <2>2, <1>8 DEF NextWord, BankWords
  <2>4. smr'[n].last_mem_addr = 0
    BY <1>9, <1>4 DEF mem_addr
  <2>5. prefetching(n)'
    BY <1>9, <1>7
  <2> QED
    BY <1>6, <2>3, <2>4, <2>5 DEF ReaderOK
<1>10. CASE ~smr_restart
  <2>1. r.ready /\ ReaderOK(n) /\ r.addr < depth
    BY <1>10, <1>2 DEF Prefetched, AddressesOK
  <2>2. /\ NextWord(n) \in 0 .. limit(n) - 1
        /\ NextWord(n)' = IF r_next /\ r.addr % Banks = n
                          THEN Following(n, NextWord(n)) ELSE NextWord(n)
    BY <2>1, <1>2, PositionsMoveOn
  <2>3. /\ data(n) = mem[n][<<r.buf, NextWord(n)>>]
        /\ mem_addr(n) = Following(n, NextWord(n))
    BY <1>10, <2>1, <2>2, ReaderShows
  <2>4. smr'[n].last_mem_addr = Following(n, NextWord(n)) /\ smr'[n].last_data = data(n)
    BY <1>4, <2>3
  <2>5. CASE r_next /\ r.addr % Banks = n
    <3>1. prefetching(n)' /\ smr'[n].last_mem_addr = NextWord(n)'
      BY <2>5, <2>1, <2>2, <2>4, <1>7
    <3> QED
      BY <3>1, <1>6 DEF ReaderOK
  <2>6. CASE ~(r_next /\ r.addr % Banks = n)
    <3>1. ~prefetching(n)' /\ NextWord(n)' = NextWord(n)
      BY <2>6, <1>10, <2>2, <1>7
    <3>2. NextWord(n) \in 0 .. Half - 1
      BY <2>2, <1>8, HalfIsPositive, SMT
    <3>3. smr'[n].last_data = mem'[n][<<r'.buf, NextWord(n)'>>]
      BY <3>1, <3>2, <2>3, <2>4, <1>5
    <3>4. smr'[n].last_mem_addr = Following(n, NextWord(n))'
      BY <3>1, <2>4, <1>8 DEF Following
    <3> QED
      BY <3>1, <3>3, <3>4, <1>6 DEF ReaderOK
  <2> QED
    BY <2>5, <2>6
<1> QED
  BY <1>9, <1>10

\* A cycle keeps the readers as they should be.
LEMMA ClockedKeepsPrefetch ==
  ASSUME PInv, NEW w_en \in BOOLEAN, NEW w_data \in Words,
         NEW r_next \in BOOLEAN, NEW r_finished \in BOOLEAN,
         Clocked(w_en, w_data, r_next, r_finished), ~set_id' => set_id \/ depth' = depth
  PROVE  Prefetched'
<1>1. r \in [buf : Buffers, addr : 0 .. Banks * Half - 1, last_full : BOOLEAN, ready : BOOLEAN]
  BY DEF PInv, IInv, TypeOK
<1>2. CASE set_id
  BY <1>2 DEF Clocked, Read, ResetReader, Prefetched
<1>3. CASE ~set_id /\ r_finished
  BY <1>3 DEF Clocked, Read, ResetReader, Prefetched
<1>4. CASE ~set_id /\ ~r_finished
  <2>1. r' = [r EXCEPT !.last_full = r_full[r.buf], !.ready = r.ready \/ smr_restart,
                       !.addr = NextReadAddress(r_next)]
    BY <1>4 DEF Clocked, Read
  <2>2. /\ r'.last_full = r_full[r.buf] /\ r'.ready = (r.ready \/ smr_restart)
        /\ r'.addr = NextReadAddress(r_next)
    BY <2>1, <1>1
  <2>3. r'.ready => r'.last_full
    BY <2>2 DEF PInv, IInv, BuffersAlternate, smr_restart
  <2>4. ~r'.ready => r'.addr = 0
    BY <2>2 DEF PInv, Prefetched, NextReadAddress
  <2>5. r'.ready /\ ~set_id' => \A n \in BankIds : n < depth' => ReaderOK(n)'
    <3> SUFFICES ASSUME r'.ready, ~set_id', NEW n \in BankIds, n < depth'
                 PROVE  ReaderOK(n)'
      OBVIOUS
    <3>1. Clocked(w_en, w_data, r_next, FALSE) /\ depth' = depth
      BY <1>4
    <3> QED
      BY <3>1, <1>4, ReadersKept
  <2> QED
    BY <2>3, <2>4, <2>5 DEF Prefetched
<1> QED
  BY <1>2, <1>3, <1>4

\* Every action keeps the readers as they should be.
LEMMA PrefetchStep == PInv /\ [Next]_vars => Prefetched'
<1> SUFFICES ASSUME PInv, [Next]_vars PROVE Prefetched'
  OBVIOUS
<1>1. Zero \in Words
  BY ConstantsAssumption
<1>2. ASSUME NEW d \in Depths, SetDepth(d) PROVE Prefetched'
  BY <1>1, <1>2, ClockedKeepsPrefetch DEF SetDepth
<1>3. CASE Restart
  BY <1>1, <1>3, ClockedKeepsPrefetch DEF Restart
<1>4. ASSUME NEW w_en \in BOOLEAN, NEW r_next \in BOOLEAN, NEW r_finished \in BOOLEAN,
             NEW w_data \in Words, Cycle(w_en, w_data, r_next, r_finished)
      PROVE  Prefetched'
  BY <1>4, ClockedKeepsPrefetch DEF Cycle
<1>5. CASE UNCHANGED vars
  BY <1>5 DEF vars, PInv, Prefetched, ReaderOK, NextWord, BankWords, Following, limit, prefetching
<1> QED
  BY <1>2, <1>3, <1>4, <1>5 DEF Next, Inputs

\* The bank of the word at the reader's position has that word as its next.
LEMMA PrefetchSuffices == PInv => PrefetchedData
<1> SUFFICES ASSUME PInv, r.ready, ~set_id
             PROVE  r_data = Contents(r.buf)[r.addr + 1]
  BY DEF PrefetchedData
<1> DEFINE a == r.addr
           n == a % Banks
<1>1. /\ TypeOK /\ a < depth /\ a \in Nat /\ depth \in Nat
      /\ Banks \in Nat \ {0} /\ a + 1 \in 1 .. depth /\ a + 1 \in 0 .. depth
  <2>1. TypeOK /\ a < depth /\ r.addr \in 0 .. Banks * Half - 1 /\ depth \in Depths
    BY DEF PInv, IInv, AddressesOK, TypeOK
  <2>2. depth \in 1 .. Banks * Half - 1 /\ Banks \in Nat \ {0} /\ Banks * Half \in Nat
    BY <2>1, ConstantsAssumption, DepthsFit, HalfIsPositive, SMT
  <2> QED
    BY <2>1, <2>2
<1>2. n \in BankIds /\ n <= a /\ a \div Banks \in Nat
  <2>1. a \div Banks \in Nat /\ n \in 0 .. Banks - 1 /\ a = Banks * (a \div Banks) + n
    BY <1>1, Division
  <2>2. Banks * (a \div Banks) \in Nat
    BY <2>1, <1>1, SMT
  <2> QED
    BY <2>1, <2>2, <1>1, SMT DEF BankIds
<1>3. n < depth
  BY <1>1, <1>2, SMT DEF BankIds
<1>4. NextWord(n) = a \div Banks /\ NextWord(n) \in 0 .. limit(n) - 1
  <2>1. BankWords(n, a) = a \div Banks /\ BankWords(n, a + 1) = BankWords(n, a) + 1
    BY <1>1, <1>2, BankWordsStep
  <2>2. BankWords(n, a + 1) \in 0 .. limit(n) /\ limit(n) \in 1 .. Half
    BY <1>1, <1>2, <1>3, LimitBounds
  <2>3. limit(n) \in Nat /\ BankWords(n, a) \in Nat
    BY <2>1, <2>2, <1>2, HalfIsPositive, SMT
  <2> HIDE DEF n, a
  <2>4. BankWords(n, a) # limit(n) /\ BankWords(n, a) \in 0 .. limit(n) - 1
    BY <2>1, <2>2, <2>3, SMT
  <2> QED
    BY <2>1, <2>4 DEF NextWord, a
<1>5. ReaderOK(n) /\ r.last_full
  BY <1>2, <1>3 DEF PInv, Prefetched
<1>6. ~smr_restart
  BY <1>5 DEF smr_restart
<1>7. data(n) = mem[n][<<r.buf, a \div Banks>>]
  BY <1>1, <1>2, <1>3, <1>4, <1>5, <1>6, ReaderShows
<1>8. Contents(r.buf)[a + 1] = mem[(a + 1 - 1) % Banks][<<r.buf, (a + 1 - 1) \div Banks>>]
  BY <1>1 DEF Contents, Stored
<1>9. a + 1 - 1 = a
  BY <1>1, SMT
<1> QED
  BY <1>7, <1>8, <1>9 DEF r_data

\* While r_ready is high, r_data is the word at the reader's position, whatever the
\* reader and the writer did before, for every number of banks and every depth.
THEOREM PrefetchWorks == Spec => []PrefetchedData
<1>1. Init => PInv
  BY InitIInv DEF Init, PInv, Prefetched, ResetReader
<1>2. PInv /\ [Next]_vars => PInv'
  BY NextStep, PrefetchStep DEF PInv
<1>3. PInv => PrefetchedData
  BY PrefetchSuffices
<1> QED
  BY <1>1, <1>2, <1>3, PTL DEF Spec

-----------------------------------------------------------------------------
(* The queue of pixels                                                     *)


\* No two words of a pixel share a cell.
LEMMA Cells ==
  ASSUME NEW i \in Nat, NEW j \in Nat, i < Banks * Half,
         i % Banks = j % Banks, i \div Banks = j \div Banks
  PROVE  i = j
<1>1. Banks \in Nat \ {0}
  BY ConstantsAssumption
<1>2. i = Banks * (i \div Banks) + (i % Banks) /\ j = Banks * (j \div Banks) + (j % Banks)
  BY <1>1, Division
<1> QED
  BY <1>2

\* Every word of a pixel has a cell.
LEMMA CellInMemory ==
  ASSUME NEW i \in Nat, i < Banks * Half
  PROVE  i % Banks \in BankIds /\ i \div Banks \in 0 .. Half - 1
<1>1. Banks \in Nat \ {0} /\ Half \in Nat \ {0}
  BY ConstantsAssumption, HalfIsPositive
<1> DEFINE q == i \div Banks
           m == i % Banks
<1>2. q \in Nat /\ m \in 0 .. Banks - 1 /\ i = Banks * q + m
  BY <1>1, Division
<1> HIDE DEF q, m
<1>3. ~(q >= Half)
  <2>1. q >= Half => Banks * q >= Banks * Half
    BY <1>1, <1>2, SMT
  <2>2. Banks * q \in Nat /\ Banks * Half \in Nat
    BY <1>1, <1>2, SMT
  <2> QED
    BY <2>1, <2>2, <1>2, SMT
<1>4. q \in 0 .. Half - 1
  BY <1>1, <1>2, <1>3, SMT
<1> QED
  BY <1>2, <1>4 DEF BankIds, q, m

\* What is stored is a sequence of words.
LEMMA StoredIsSequence ==
  ASSUME TypeOK, NEW b \in Buffers, NEW k \in 0 .. Banks * Half - 1
  PROVE  Stored(b, k) \in Seq(Words) /\ Len(Stored(b, k)) = k
<1>1. \A i \in 1 .. k : mem[(i - 1) % Banks][<<b, (i - 1) \div Banks>>] \in Words
  <2> SUFFICES ASSUME NEW i \in 1 .. k
               PROVE  mem[(i - 1) % Banks][<<b, (i - 1) \div Banks>>] \in Words
    OBVIOUS
  <2>1. i - 1 \in Nat /\ i - 1 < Banks * Half
    BY ConstantsAssumption, HalfIsPositive, SMT
  <2>2. (i - 1) % Banks \in BankIds /\ (i - 1) \div Banks \in 0 .. Half - 1
    BY <2>1, CellInMemory
  <2>3. mem[(i - 1) % Banks] \in [Buffers \X (0 .. Half - 1) -> Words]
    BY <2>2 DEF TypeOK
  <2> QED
    BY <2>2, <2>3
<1>2. k \in Nat
  BY ConstantsAssumption, HalfIsPositive, SMT
<1>3. Stored(b, k) \in [1 .. k -> Words]
  BY <1>1 DEF Stored
<1>4. Stored(b, k) \in Seq(Words)
  BY <1>2, <1>3, SMT
<1>5. DOMAIN Stored(b, k) = 1 .. k
  BY <1>3
<1>6. Len(Stored(b, k)) = k
  BY <1>2, <1>4, <1>5, SMT
<1> QED
  BY <1>4, <1>6

\* A buffer that is full is not written.
LEMMA FullBufferKept ==
  ASSUME IInv, NEW w_en \in BOOLEAN, NEW w_data \in Words, Write(w_en, w_data),
         NEW b \in Buffers, b # w.buf \/ ~w_en \/ ~w_ready,
         NEW k \in 0 .. Banks * Half - 1
  PROVE  Stored(b, k)' = Stored(b, k)
<1> SUFFICES ASSUME NEW i \in 1 .. k
             PROVE  mem'[(i - 1) % Banks][<<b, (i - 1) \div Banks>>]
                      = mem[(i - 1) % Banks][<<b, (i - 1) \div Banks>>]
  BY DEF Stored
<1>1. i - 1 \in Nat /\ i - 1 < Banks * Half
  BY ConstantsAssumption, HalfIsPositive, SMT
<1> DEFINE n == (i - 1) % Banks
           x == (i - 1) \div Banks
<1>2. n \in BankIds /\ x \in 0 .. Half - 1
  BY <1>1, CellInMemory
<1>3. /\ mem \in [BankIds -> [Buffers \X (0 .. Half - 1) -> Words]]
      /\ mem[n] \in [Buffers \X (0 .. Half - 1) -> Words]
      /\ <<b, x>> \in Buffers \X (0 .. Half - 1)
  BY <1>2 DEF IInv, TypeOK
<1>4. CASE w_en /\ w_ready
  <2> DEFINE cell == <<w.buf, w.addr \div Banks>>
             bank == w.addr % Banks
  <2>1. mem' = [mem EXCEPT ![bank][cell] = w_data]
    BY <1>4 DEF Write
  <2>2. cell # <<b, x>>
    BY <1>4
  <2> HIDE DEF cell, bank, n, x
  <2>3. mem'[n] = IF n = bank THEN [mem[n] EXCEPT ![cell] = w_data] ELSE mem[n]
    BY <2>1, <1>2, <1>3
  <2>4. mem'[n][<<b, x>>] = mem[n][<<b, x>>]
    BY <2>2, <2>3, <1>3
  <2> QED
    BY <2>4 DEF n, x
<1>5. CASE ~(w_en /\ w_ready)
  BY <1>5 DEF Write
<1> QED
  BY <1>4, <1>5

\* A word that is accepted is appended to the words stored before.
LEMMA WordAppended ==
  ASSUME IInv, NEW w_data \in Words, Write(TRUE, w_data), w_ready,
         NEW b, NEW a, b = w.buf, a = w.addr
  PROVE  Stored(b, a + 1)' = Append(Stored(b, a), w_data)
<1>1. /\ a \in 0 .. Banks * Half - 1 /\ a \in Nat /\ a < Banks * Half /\ b \in Buffers
      /\ Banks * Half \in Nat
  <2>1. w \in [buf : Buffers, addr : 0 .. Banks * Half - 1]
    BY DEF IInv, TypeOK
  <2>2. Banks * Half \in Nat
    BY ConstantsAssumption, HalfIsPositive, SMT
  <2> QED
    BY <2>1, <2>2
<1>2. mem' = [mem EXCEPT ![a % Banks][<<b, a \div Banks>>] = w_data]
  BY DEF Write
<1>3. /\ mem \in [BankIds -> [Buffers \X (0 .. Half - 1) -> Words]]
      /\ a % Banks \in BankIds /\ a \div Banks \in 0 .. Half - 1
  BY <1>1, CellInMemory DEF IInv, TypeOK
<1>4. mem'[a % Banks][<<b, a \div Banks>>] = w_data
  <2> DEFINE bank == a % Banks
             cell == <<b, a \div Banks>>
  <2>1. mem[bank] \in [Buffers \X (0 .. Half - 1) -> Words] /\ cell \in Buffers \X (0 .. Half - 1)
    BY <1>1, <1>3
  <2>2. mem' = [mem EXCEPT ![bank][cell] = w_data] /\ bank \in DOMAIN mem
    BY <1>2, <1>3
  <2> HIDE DEF bank, cell
  <2>3. mem'[bank][cell] = w_data
    BY <2>1, <2>2
  <2> QED
    BY <2>3 DEF bank, cell
<1>5. ASSUME NEW i \in 1 .. a
      PROVE  mem'[(i - 1) % Banks][<<b, (i - 1) \div Banks>>]
               = mem[(i - 1) % Banks][<<b, (i - 1) \div Banks>>]
  <2> DEFINE n == (i - 1) % Banks
             x == (i - 1) \div Banks
             bank == a % Banks
             y == a \div Banks
  <2>1. i - 1 \in Nat /\ i - 1 < Banks * Half /\ i - 1 # a
    BY <1>1, SMT
  <2>2. n # bank \/ x # y
    BY <2>1, <1>1, Cells
  <2>3. n \in BankIds /\ x \in 0 .. Half - 1
    BY <2>1, CellInMemory
  <2>4. mem[n] \in [Buffers \X (0 .. Half - 1) -> Words]
    BY <2>3, <1>3
  <2>5. mem' = [mem EXCEPT ![bank][<<b, y>>] = w_data]
    BY <1>2
  <2>6. <<b, x>> \in Buffers \X (0 .. Half - 1)
    BY <2>3, <1>1
  <2> HIDE DEF n, x, bank, y
  <2>7. mem'[n] = IF n = bank THEN [mem[n] EXCEPT ![<<b, y>>] = w_data] ELSE mem[n]
    BY <2>5, <2>3, <1>3
  <2>8. mem'[n][<<b, x>>] = mem[n][<<b, x>>]
    BY <2>2, <2>4, <2>6, <2>7
  <2> QED
    BY <2>8 DEF n, x
<1> DEFINE old == Stored(b, a)
           new == [i \in 1 .. a + 1 |-> mem'[(i - 1) % Banks][<<b, (i - 1) \div Banks>>]]
<1>6. old \in Seq(Words) /\ Len(old) = a
  BY <1>1, StoredIsSequence DEF IInv
<1>7. \A i \in 1 .. a : new[i] = old[i]
  BY <1>1, <1>5, SMT DEF Stored
<1>8. new[a + 1] = w_data
  <2> SUFFICES ASSUME NEW i, i = a + 1 PROVE new[i] = w_data
    OBVIOUS
  <2>1. i - 1 = a /\ i \in 1 .. a + 1
    BY <1>1, SMT
  <2>2. new[i] = mem'[(i - 1) % Banks][<<b, (i - 1) \div Banks>>]
    BY <2>1, Zenon
  <2> QED
    BY <2>1, <2>2, <1>4, Zenon
<1>9. DOMAIN new = 1 .. a + 1 /\ new = [i \in 1 .. a + 1 |-> new[i]]
  OBVIOUS
<1>10. Stored(b, a + 1)' = new
  BY DEF Stored
<1> HIDE DEF new, old
<1>11. /\ Append(old, w_data) \in Seq(Words) /\ Len(Append(old, w_data)) = a + 1
       /\ \A i \in 1 .. a : Append(old, w_data)[i] = old[i]
       /\ Append(old, w_data)[a + 1] = w_data
  BY <1>6, AppendProperties
<1>12. \A i \in 1 .. a + 1 : new[i] = Append(old, w_data)[i]
  BY <1>1, <1>7, <1>8, <1>11, SMT
<1>13. \A i \in 1 .. a + 1 : new[i] \in Words
  BY <1>11, <1>12, ElementOfSeq
<1>14. new \in Seq(Words) /\ Len(new) = a + 1
  <2>1. a + 1 \in Nat
    BY <1>1, SMT
  <2>2. new \in [1 .. a + 1 -> Words]
    BY <1>9, <1>13
  <2>3. new \in Seq(Words)
    BY <2>1, <2>2, SMT
  <2> QED
    BY <2>1, <2>3, <1>9, SMT
<1>15. new = Append(old, w_data)
  BY <1>11, <1>12, <1>14, SeqEqual
<1> QED
  BY <1>10, <1>15 DEF old

-----------------------------------------------------------------------------
(* The queue of full buffers.                                              *)

\* The pixels of the two buffers, as a state function.
BufferContents == [b \in Buffers |-> Contents(b)]

\* The pixels of the queue by the buffer to be read, after a cycle and before it.
LEMMA FullNext ==
  ASSUME NEW c \in Buffers, 1 - c \in Buffers, r'.buf = c, ~set_id'
  PROVE  Full' = IF ~r_full'[c] THEN <<>>
                 ELSE IF r_full'[1 - c] THEN <<BufferContents'[c], BufferContents'[1 - c]>>
                 ELSE <<BufferContents'[c]>>
BY DEF Full, Contents, Stored, BufferContents

\* The same, before the cycle.
LEMMA FullNow ==
  ASSUME NEW c \in Buffers, 1 - c \in Buffers, r.buf = c, ~set_id
  PROVE  Full = IF ~r_full[c] THEN <<>>
                ELSE IF r_full[1 - c] THEN <<BufferContents[c], BufferContents[1 - c]>>
                ELSE <<BufferContents[c]>>
BY DEF Full, Contents, Stored, BufferContents

\* Short sequences.
LEMMA Tuples ==
  ASSUME NEW x, NEW y
  PROVE  /\ Append(<<>>, x) = <<x>> /\ Append(<<x>>, y) = <<x, y>>
         /\ Tail(<<x>>) = <<>> /\ Tail(<<x, y>>) = <<y>>
         /\ Len(<<x>>) = 1 /\ Len(<<>>) = 0 /\ <<x>> # <<>> /\ <<x, y>> # <<>>
         /\ <<x>>[1] = x /\ <<x, y>>[1] = x
<1>1. Append(<<x>>, y) = <<x, y>>
  <2> DEFINE s == Append(<<x>>, y)
             t == <<x, y>>
  <2>1. <<x>> \in Seq({x, y}) /\ Len(<<x>>) = 1 /\ <<x>>[1] = x
    BY SMT
  <2>2. s \in Seq({x, y}) /\ Len(s) = 2 /\ s[1] = x /\ s[2] = y
    BY <2>1, AppendProperties
  <2>3. t \in Seq({x, y}) /\ Len(t) = 2 /\ t[1] = x /\ t[2] = y
    BY SMT
  <2> HIDE DEF s, t
  <2>4. \A i \in 1 .. Len(s) : s[i] = t[i]
    BY <2>2, <2>3
  <2>5. s = t
    BY <2>2, <2>3, <2>4, SeqEqual
  <2> QED
    BY <2>5 DEF s, t
<1>2. /\ Append(<<>>, x) = <<x>> /\ Tail(<<x>>) = <<>> /\ Tail(<<x, y>>) = <<y>>
      /\ Len(<<x>>) = 1 /\ Len(<<>>) = 0 /\ <<x>> # <<>> /\ <<x, y>> # <<>>
      /\ <<x>>[1] = x /\ <<x, y>>[1] = x
  BY SMT
<1> QED
  BY <1>1, <1>2

\* A cycle that is no restart: what the writer appends, and what it has appended when
\* the pixel is complete.
LEMMA WriterStep ==
  ASSUME IInv, NEW w_en \in BOOLEAN, NEW w_data \in Words, ~set_id, ~set_id', depth' = depth,
         Write(w_en, w_data)
  PROVE  LET new == IF w_en /\ w_ready THEN Append(Storing, w_data) ELSE Storing
         IN  /\ (Len(new) = depth) <=> completes(w_en)
             /\ completes(w_en) => Storing' = <<>>
             /\ ~completes(w_en) => Storing' = new
             /\ \A b \in Buffers :
                  /\ completes(w_en) /\ b = w.buf => BufferContents'[b] = new
                  /\ r_full[b] => BufferContents'[b] = BufferContents[b]
<1> DEFINE acc == w_en /\ w_ready
           new == IF acc THEN Append(Storing, w_data) ELSE Storing
<1>1. PICK b, a, d : b = w.buf /\ a = w.addr /\ d = depth
  OBVIOUS
<1>2. /\ b \in Buffers /\ a \in 0 .. Banks * Half - 1 /\ a \in Nat /\ a < d
      /\ d \in 0 .. Banks * Half - 1 /\ d \in Nat
  <2>1. w \in [buf : Buffers, addr : 0 .. Banks * Half - 1] /\ depth \in Depths /\ w.addr < depth
    BY DEF IInv, TypeOK, AddressesOK
  <2>2. depth \in 1 .. Banks * Half - 1 /\ Banks * Half \in Nat
    BY <2>1, DepthsFit, ConstantsAssumption, HalfIsPositive, SMT
  <2> QED
    BY <1>1, <2>1, <2>2
<1>3. Storing = Stored(b, a) /\ Stored(b, a) \in Seq(Words) /\ Len(Stored(b, a)) = a
  BY <1>1, <1>2, StoredIsSequence DEF Storing, IInv
<1>0. PICK k : k = IF acc THEN a + 1 ELSE a
  OBVIOUS
<1>4. new = Stored(b, k)' /\ Len(new) = k
  <2>1. CASE acc
    <3>1. w_en = TRUE
      BY <2>1
    <3>2. Stored(b, a + 1)' = Append(Stored(b, a), w_data)
      BY <2>1, <3>1, <1>1, WordAppended
    <3>3. Len(Append(Stored(b, a), w_data)) = a + 1
      BY <1>3, AppendProperties
    <3> QED
      BY <2>1, <3>2, <3>3, <1>0, <1>3
  <2>2. CASE ~acc
    <3>1. Stored(b, a)' = Stored(b, a)
      BY <2>2, <1>2, FullBufferKept
    <3> QED
      BY <2>2, <3>1, <1>0, <1>3
  <2> QED
    BY <2>1, <2>2
<1>5. completes(w_en) <=> acc /\ a = d - 1
  BY <1>1 DEF completes
<1>6. (Len(new) = depth) <=> completes(w_en)
  BY <1>0, <1>1, <1>2, <1>4, <1>5
<1>7. w' = IF completes(w_en) THEN [buf |-> 1 - w.buf, addr |-> 0]
           ELSE IF acc THEN [w EXCEPT !.addr = @ + 1] ELSE w
  BY DEF Write
<1>8. completes(w_en) => Storing' = <<>>
  <2> SUFFICES ASSUME completes(w_en) PROVE Storing' = <<>>
    OBVIOUS
  <2>1. w'.addr = 0
    BY <1>7
  <2>2. Storing' = [i \in 1 .. 0 |-> mem'[(i - 1) % Banks][<<w'.buf, (i - 1) \div Banks>>]]
    BY <2>1 DEF Storing, Stored
  <2>3. 1 .. 0 = {}
    BY SMT
  <2> QED
    BY <2>2, <2>3, SMT
<1>9. ~completes(w_en) => Storing' = new
  <2> SUFFICES ASSUME ~completes(w_en) PROVE Storing' = new
    OBVIOUS
  <2>1. w'.buf = b /\ w'.addr = k
    <3>1. w \in [buf : Buffers, addr : 0 .. Banks * Half - 1]
      BY DEF IInv, TypeOK
    <3> QED
      BY <3>1, <1>0, <1>1, <1>7
  <2>2. Storing' = Stored(b, k)'
    BY <2>1 DEF Storing, Stored
  <2> QED
    BY <2>2, <1>4
<1>10. ASSUME NEW c \in Buffers, completes(w_en), c = w.buf
       PROVE  BufferContents'[c] = new
  <2>1. k = d /\ c = b
    BY <1>10, <1>0, <1>1, <1>2, <1>5
  <2>2. BufferContents'[c] = Stored(b, k)'
    BY <2>1, <1>1 DEF BufferContents, Contents, Stored
  <2> QED
    BY <2>2, <1>4
<1>11. ASSUME NEW c \in Buffers, r_full[c]
       PROVE  BufferContents'[c] = BufferContents[c]
  <2>1. c # w.buf \/ ~w_en \/ ~w_ready
    BY <1>11 DEF w_ready
  <2>2. Stored(c, d)' = Stored(c, d)
    BY <2>1, <1>2, FullBufferKept
  <2>3. BufferContents'[c] = Stored(c, d)' /\ BufferContents[c] = Stored(c, d)
    BY <1>1 DEF BufferContents, Contents, Stored
  <2> QED
    BY <2>2, <2>3
<1> QED
  BY <1>6, <1>8, <1>9, <1>10, <1>11

\* The full buffers after a cycle: the oldest leaves if it is finished, and a pixel
\* that was completed is the newest.
LEMMA QueueStep ==
  ASSUME IInv, NEW w_en \in BOOLEAN, NEW r_finished \in BOOLEAN, NEW new,
         ~set_id, ~set_id', r_finished => r.ready,
         Handover(w_en, r_finished),
         r'.buf = IF r_finished THEN 1 - r.buf ELSE r.buf,
         \A b \in Buffers :
           /\ completes(w_en) /\ b = w.buf => BufferContents'[b] = new
           /\ r_full[b] => BufferContents'[b] = BufferContents[b]
  PROVE  /\ LET kept == IF r_finished THEN Tail(Full) ELSE Full
             IN  Full' = IF completes(w_en) THEN Append(kept, new) ELSE kept
         /\ w_ready => Len(Full) < 2
         /\ r.ready => Full # <<>> /\ Full[1] = BufferContents[r.buf]
<1>1. PICK c : c = r.buf
  OBVIOUS
<1>2. /\ c \in {0, 1} /\ 1 - c \in {0, 1} /\ w.buf \in {0, 1} /\ c # 1 - c
      /\ c \in Buffers /\ 1 - c \in Buffers /\ 1 - (1 - c) = c
  BY <1>1 DEF IInv, TypeOK, Buffers
<1>3. /\ (c = w.buf) <=> (r_full[c] = r_full[1 - c])
      /\ r_full[1 - c] => r_full[c]
      /\ r.ready => r_full[c]
  BY <1>1, <1>2 DEF IInv, BuffersAlternate, Buffers
<1>4. \A b \in {0, 1} :
        r_full'[b] <=> /\ ~(r_finished /\ b = c)
                       /\ ((completes(w_en) /\ b = w.buf) \/ r_full[b])
  BY <1>1 DEF Handover, Buffers
<1>5. completes(w_en) => ~r_full[w.buf]
  BY DEF completes, w_ready
<1>6. r_full \in [Buffers -> BOOLEAN] /\ completes(w_en) \in BOOLEAN
  BY DEF IInv, TypeOK, completes, w_ready
<1>7. Full = IF ~r_full[c] THEN <<>>
             ELSE IF r_full[1 - c] THEN <<BufferContents[c], BufferContents[1 - c]>>
             ELSE <<BufferContents[c]>>
  BY <1>1, <1>2, FullNow
<1>8. ASSUME NEW e \in {c, 1 - c}, r'.buf = e
      PROVE  Full' = IF ~r_full'[e] THEN <<>>
                     ELSE IF r_full'[1 - e] THEN <<BufferContents'[e], BufferContents'[1 - e]>>
                     ELSE <<BufferContents'[e]>>
  BY <1>2, <1>8, FullNext
<1>9. w_ready => Len(Full) < 2
  <2> SUFFICES ASSUME w_ready PROVE Len(Full) < 2
    OBVIOUS
  <2>1. ~r_full[1 - c] \/ ~r_full[c]
    BY <1>2, <1>3 DEF w_ready
  <2>2. Full = <<>> \/ Full = <<BufferContents[c]>>
    BY <2>1, <1>7
  <2>3. PICK s, x : s = Full /\ x = BufferContents[c]
    OBVIOUS
  <2>4. s = <<>> \/ s = <<x>>
    BY <2>2, <2>3
  <2>5. Len(s) < 2
    <3>1. CASE s = <<>>
      BY <3>1, SMT
    <3>2. CASE s = <<x>>
      BY <3>2, SMT
    <3> QED
      BY <2>4, <3>1, <3>2
  <2> QED
    BY <2>3, <2>5
<1>10. r.ready => Full # <<>> /\ Full[1] = BufferContents[r.buf]
  BY <1>1, <1>3, <1>7, Tuples
<1> DEFINE kept == IF r_finished THEN Tail(Full) ELSE Full
<1>11. CASE ~r_full[c]
  <2>1. ~r_finished /\ r'.buf = c /\ w.buf = c /\ ~r_full[1 - c]
    BY <1>1, <1>2, <1>3, <1>6, <1>11
  <2>2. kept = <<>>
    BY <2>1, <1>7, <1>11
  <2>3. CASE completes(w_en)
    <3>1. r_full'[c] /\ ~r_full'[1 - c] /\ BufferContents'[c] = new
      BY <2>1, <2>3, <1>2, <1>4
    <3>2. Full' = <<new>>
      BY <3>1, <2>1, <1>8
    <3> QED
      BY <3>2, <2>2, <2>3, <1>9, <1>10, Tuples
  <2>4. CASE ~completes(w_en)
    <3>1. ~r_full'[c]
      BY <2>4, <1>2, <1>4, <1>11
    <3> QED
      BY <3>1, <2>1, <2>2, <2>4, <1>8, <1>9, <1>10
  <2> QED
    BY <2>3, <2>4
<1>12. CASE r_full[c] /\ ~r_full[1 - c]
  <2>1. w.buf = 1 - c /\ Full = <<BufferContents[c]>>
    BY <1>2, <1>3, <1>6, <1>7, <1>12
  <2>2. CASE r_finished
    <3>1. r'.buf = 1 - c /\ kept = <<>>
      BY <2>1, <2>2, <1>1
    <3>2. Full' = IF ~r_full'[1 - c] THEN <<>>
                  ELSE IF r_full'[c] THEN <<BufferContents'[1 - c], BufferContents'[c]>>
                  ELSE <<BufferContents'[1 - c]>>
      BY <3>1, <1>2, <1>8
    <3>3. ~r_full'[c] /\ (r_full'[1 - c] <=> completes(w_en))
      BY <2>1, <2>2, <1>2, <1>4, <1>6, <1>12
    <3>4. completes(w_en) => BufferContents'[1 - c] = new
      BY <2>1, <1>2
    <3>5. Full' = IF completes(w_en) THEN <<new>> ELSE <<>>
      BY <3>2, <3>3, <3>4
    <3> QED
      BY <3>1, <3>5, <1>9, <1>10, Tuples
  <2>3. CASE ~r_finished
    <3>1. r'.buf = c /\ kept = <<BufferContents[c]>>
      BY <2>1, <2>3, <1>1
    <3>2. r_full'[c] /\ (r_full'[1 - c] <=> completes(w_en))
      BY <2>1, <2>3, <1>2, <1>4, <1>6, <1>12
    <3>3. /\ BufferContents'[c] = BufferContents[c]
          /\ completes(w_en) => BufferContents'[1 - c] = new
      BY <2>1, <1>2, <1>12
    <3>4. Full' = IF completes(w_en) THEN <<BufferContents[c], new>> ELSE <<BufferContents[c]>>
      BY <3>1, <3>2, <3>3, <1>8
    <3>5. Append(kept, new) = <<BufferContents[c], new>>
      <4>1. PICK x : x = BufferContents[c]
        OBVIOUS
      <4>2. Append(<<x>>, new) = <<x, new>>
        BY Tuples
      <4> QED
        BY <4>1, <4>2, <3>1
    <3> HIDE DEF kept
    <3>6. Full' = IF completes(w_en) THEN Append(kept, new) ELSE kept
      BY <3>1, <3>4, <3>5
    <3> QED
      BY <3>6, <1>9, <1>10 DEF kept
  <2> QED
    BY <2>2, <2>3
<1>13. CASE r_full[c] /\ r_full[1 - c]
  <2>1. w.buf = c /\ ~completes(w_en) /\ Full = <<BufferContents[c], BufferContents[1 - c]>>
    BY <1>2, <1>3, <1>5, <1>7, <1>13
  <2>2. BufferContents'[c] = BufferContents[c] /\ BufferContents'[1 - c] = BufferContents[1 - c]
    BY <2>1, <1>2, <1>13
  <2>3. CASE r_finished
    <3>1. r'.buf = 1 - c /\ kept = <<BufferContents[1 - c]>>
      BY <2>1, <2>3, <1>1
    <3>2. Full' = IF ~r_full'[1 - c] THEN <<>>
                  ELSE IF r_full'[c] THEN <<BufferContents'[1 - c], BufferContents'[c]>>
                  ELSE <<BufferContents'[1 - c]>>
      BY <3>1, <1>2, <1>8
    <3>3. ~r_full'[c] /\ r_full'[1 - c]
      BY <2>3, <1>2, <1>4, <1>13
    <3> QED
      BY <2>1, <2>2, <3>1, <3>2, <3>3, <1>9, <1>10
  <2>4. CASE ~r_finished
    <3>1. r'.buf = c /\ kept = Full /\ r_full'[c] /\ r_full'[1 - c]
      BY <2>4, <1>1, <1>2, <1>4, <1>13
    <3> QED
      BY <3>1, <2>1, <2>2, <1>8, <1>9, <1>10
  <2> QED
    BY <2>3, <2>4
<1> QED
  BY <1>11, <1>12, <1>13

-----------------------------------------------------------------------------
(* The refinement.                                                         *)

\* A cycle of the store that is no restart is a cycle of the queue.
LEMMA CycleRefines ==
  ASSUME PInv, NEW w_en \in BOOLEAN, NEW w_data \in Words,
         NEW r_next \in BOOLEAN, NEW r_finished \in BOOLEAN,
         Cycle(w_en, w_data, r_next, r_finished)
  PROVE  Queue!Next
<1> DEFINE acc == w_en /\ w_ready
           take == r_next /\ r.ready
           word == IF acc THEN w_data ELSE NoWord
           new == IF acc THEN Append(Storing, w_data) ELSE Storing
           kept == IF r_finished THEN Tail(Full) ELSE Full
<1>1. /\ ~set_id /\ ~set_id' /\ depth' = depth /\ (r_finished => r.ready)
      /\ Write(w_en, w_data) /\ Handover(w_en, r_finished) /\ Read(r_next, r_finished)
      /\ Fetch(r_next)
  BY DEF Cycle, Clocked, Read
<1>2. /\ IInv /\ PrefetchedData
      /\ depth \in 1 .. Banks * Half - 1 /\ Banks * Half \in Nat
      /\ r \in [buf : Buffers, addr : 0 .. Banks * Half - 1, last_full : BOOLEAN, ready : BOOLEAN]
      /\ r.addr < depth
  <2>1. IInv /\ PrefetchedData
    BY PrefetchSuffices DEF PInv
  <2>2. depth \in Depths /\ r.addr < depth
    BY <2>1, <1>1 DEF IInv, TypeOK, AddressesOK
  <2>3. depth \in 1 .. Banks * Half - 1 /\ Banks * Half \in Nat
    BY <2>2, DepthsFit, ConstantsAssumption, HalfIsPositive, SMT
  <2>4. r \in [buf : Buffers, addr : 0 .. Banks * Half - 1, last_full : BOOLEAN, ready : BOOLEAN]
    BY <2>1 DEF IInv, TypeOK
  <2> QED
    BY <2>1, <2>2, <2>3, <2>4
<1>3. /\ (Len(new) = depth) <=> completes(w_en)
      /\ completes(w_en) => Storing' = <<>>
      /\ ~completes(w_en) => Storing' = new
      /\ \A b \in Buffers :
           /\ completes(w_en) /\ b = w.buf => BufferContents'[b] = new
           /\ r_full[b] => BufferContents'[b] = BufferContents[b]
  BY <1>1, <1>2, WriterStep
<1>4. r' = IF r_finished THEN [ResetReader EXCEPT !.buf = 1 - r.buf]
           ELSE [r EXCEPT !.last_full = r_full[r.buf], !.ready = r.ready \/ smr_restart,
                          !.addr = NextReadAddress(r_next)]
  BY <1>1 DEF Read
<1>5. /\ r'.buf = IF r_finished THEN 1 - r.buf ELSE r.buf
      /\ r'.addr = IF r_finished THEN 0 ELSE NextReadAddress(r_next)
  <2>1. CASE r_finished
    BY <2>1, <1>4 DEF ResetReader
  <2>2. CASE ~r_finished
    BY <2>2, <1>2, <1>4
  <2> QED
    BY <2>1, <2>2
<1>6. /\ Full' = IF completes(w_en) THEN Append(kept, new) ELSE kept
      /\ w_ready => Len(Full) < 2
      /\ r.ready => Full # <<>> /\ Full[1] = BufferContents[r.buf]
  <2> HIDE DEF new
  <2> QED
    BY <1>1, <1>2, <1>3, <1>5, QueueStep
<1>7. word # NoWord <=> acc
  BY ConstantsAssumption
<1>8. word # NoWord => Len(Full) < 2
  BY <1>6, <1>7
<1>9. take \/ r_finished => Full # <<>>
  BY <1>1, <1>6
<1>10. Queue!Write(word, kept)
  <2>1. new = IF word = NoWord THEN Storing ELSE Append(Storing, word)
    BY <1>7
  <2> HIDE DEF new, kept, word
  <2> QED
    BY <1>3, <1>6, <2>1 DEF Queue!Write
<1>11. taken' = IF take THEN Full[1][Position + 1] ELSE NoWord
  <2>1. CASE take
    <3>1. r_data = Contents(r.buf)[r.addr + 1]
      BY <2>1, <1>1, <1>2 DEF PrefetchedData
    <3>2. BufferContents[r.buf] = Contents(r.buf)
      BY <1>2 DEF BufferContents
    <3>3. taken' = r_data /\ Position = r.addr
      BY <2>1, <1>1 DEF Fetch, Position
    <3> QED
      BY <2>1, <3>1, <3>2, <3>3, <1>6
  <2>2. CASE ~take
    BY <2>2, <1>1 DEF Fetch
  <2> QED
    BY <2>1, <2>2
<1>12. Position' = CASE r_finished -> 0
                     [] take /\ ~r_finished -> (Position + 1) % depth
                     [] OTHER -> Position
  <2>1. Position = r.addr /\ Position' = r'.addr
    BY <1>1 DEF Position
  <2>2. CASE r_finished
    BY <2>1, <2>2, <1>5
  <2>3. CASE take /\ ~r_finished
    <3>1. r'.addr = IF r.addr = depth - 1 THEN 0 ELSE r.addr + 1
      BY <2>3, <1>5 DEF NextReadAddress
    <3>2. PICK a, d : a = r.addr /\ d = depth
      OBVIOUS
    <3>3. a \in Nat /\ d \in Nat \ {0} /\ a < d
      BY <3>2, <1>2, SMT
    <3>4. (a + 1) % d = IF a = d - 1 THEN 0 ELSE a + 1
      <4>1. CASE a = d - 1
        <5>1. a + 1 = d /\ d % d = 0
          BY <4>1, <3>3, SMT
        <5> QED
          BY <4>1, <5>1
      <4>2. CASE a # d - 1
        <5>1. PICK x : x = a + 1
          OBVIOUS
        <5>2. x \in Nat /\ x < d
          BY <4>2, <5>1, <3>3, SMT
        <5>3. x % d = x
          BY <5>2, <3>3, SMT
        <5> QED
          BY <4>2, <5>1, <5>3
      <4> QED
        BY <4>1, <4>2
    <3> QED
      BY <2>1, <2>3, <3>1, <3>2, <3>4
  <2>4. CASE ~take /\ ~r_finished
    BY <2>1, <2>4, <1>5 DEF NextReadAddress
  <2> QED
    BY <2>2, <2>3, <2>4
<1>13. Queue!Cycle(word, take, r_finished)
  <2> HIDE DEF word, take
  <2> QED
    BY <1>1, <1>8, <1>9, <1>10, <1>11, <1>12 DEF Queue!Cycle
<1>14. word \in Words \cup {NoWord} /\ take \in BOOLEAN
  BY <1>2
<1> HIDE DEF word, take
<1> QED
  BY <1>13, <1>14 DEF Queue!Next

\* The cycle that writes the pixel size, and the one after it, empty the queue.
LEMMA RestartRefines ==
  ASSUME IInv, \/ \E d \in Depths : SetDepth(d)
               \/ Restart
  PROVE  Queue!Next
<1>1. depth' \in Depths /\ taken' = NoWord
  BY DEF SetDepth, Restart, Clocked, Read, Fetch, IInv, TypeOK
<1>2. 1 .. 0 = {}
  BY SMT
<1>3. Storing' = <<>> /\ Full' = <<>> /\ Position' = 0
  <2>1. CASE \E d \in Depths : SetDepth(d)
    <3>1. set_id'
      BY <2>1 DEF SetDepth
    <3> QED
      BY <3>1 DEF Storing, Full, Position
  <2>2. CASE Restart
    <3>1. /\ w' = ResetWriter /\ r' = ResetReader
          /\ r_full' = [b \in Buffers |-> /\ ~(FALSE /\ b = r.buf)
                                          /\ \/ completes(FALSE) /\ b = w.buf
                                             \/ r_full[b] /\ ~set_id]
          /\ ~set_id' /\ set_id
      BY <2>2 DEF Restart, Clocked, Write, Read, Handover
    <3>2. w'.addr = 0 /\ r'.addr = 0 /\ r'.buf = 0 /\ ~r_full'[0]
      BY <3>1 DEF ResetWriter, ResetReader, Buffers, completes
    <3>3. Full' = <<>> /\ Position' = 0
      BY <3>1, <3>2 DEF Full, Position
    <3>4. Storing' = [i \in 1 .. 0 |-> mem'[(i - 1) % Banks][<<w'.buf, (i - 1) \div Banks>>]]
      BY <3>1, <3>2 DEF Storing, Stored
    <3>5. Storing' = <<>>
      BY <3>4, <1>2, SMT
    <3> QED
      BY <3>3, <3>5
  <2> QED
    BY <2>1, <2>2
<1>4. Queue!Restart
  BY <1>1, <1>3 DEF Queue!Restart
<1> QED
  BY <1>4 DEF Queue!Next

\* Two buffers, the banks and the prefetching readers together are a queue of two
\* pixels (store.py, InputStore), for every number of banks and every depth.
THEOREM RefinesQueue == Spec => ImplementsQueue
<1>1. Init => Queue!Init
  BY DEF Init, Queue!Init, Queue!Empty, Storing, Full, Position
<1>2. PInv /\ [Next]_vars => [Queue!Next]_(Queue!vars)
  <2> SUFFICES ASSUME PInv, [Next]_vars PROVE [Queue!Next]_(Queue!vars)
    OBVIOUS
  <2>1. CASE \/ \E d \in Depths : SetDepth(d)
             \/ Restart
    BY <2>1, RestartRefines DEF PInv
  <2>2. CASE Inputs
    BY <2>2, CycleRefines DEF Inputs
  <2>3. CASE UNCHANGED vars
    BY <2>3 DEF vars, Queue!vars, Storing, Full, Position, Contents, Stored
  <2> QED
    BY <2>1, <2>2, <2>3 DEF Next
<1>3. Init => PInv
  BY InitIInv DEF Init, PInv, Prefetched, ResetReader
<1>4. PInv /\ [Next]_vars => PInv'
  BY NextStep, PrefetchStep DEF PInv
<1> QED
  BY <1>1, <1>2, <1>3, <1>4, PTL DEF Spec, ImplementsQueue, Queue!Spec
=============================================================================
