--------------------------- MODULE GenConvProofs ---------------------------
(***************************************************************************)
(* The driver of the gen_* accelerators on their circuit, for every depth  *)
(* of the buffers, number of banks and sequence of layers.                 *)
(*                                                                         *)
(* The rotating buffer is a queue: what its pointers, count and memory     *)
(* hold is changed by a strobe as a sequence is by Append and Tail, around *)
(* the end of the memory too.  GInv says what every queue holds at every   *)
(* step of the driver's loops: a number of words of the layer, stored or   *)
(* turned round.  It holds always (AlwaysGInv), and from it follow the     *)
(* properties of GenConv and that the circuit does what its commands mean. *)
(***************************************************************************)
EXTENDS GenConv, SequenceTheorems, FiniteSetTheorems, FunctionTheorems, TLAPS

Valid(b) == b \in Buffers /\ Consistent(b)

\* The place after a place.
LEMMA SuccPlace ==
  ASSUME NEW p \in Places
  PROVE  Succ(p) \in Places
  BY DepthAssumption, SMT DEF Places, Succ

\* The places of a buffer's words.
LEMMA PlaceType ==
  ASSUME NEW b, Valid(b), NEW i \in 1 .. b.cnt
  PROVE  Place(b, i) \in Places /\ b.mem[Place(b, i)] \in Words
<1>1. b.rd_ptr \in Places /\ b.cnt \in 0 .. DEPTH /\ b.mem \in [Places -> Words]
  BY DEF Valid, Buffers
<1>2. Place(b, i) \in Places
  BY <1>1, DepthAssumption, SMT DEF Place, Places
<1> QED
  BY <1>1, <1>2

\* A buffer holds as many words as it counts.
LEMMA ContentsType ==
  ASSUME NEW b, Valid(b)
  PROVE  Contents(b) \in Seq(Words) /\ Len(Contents(b)) = b.cnt
<1>1. b.cnt \in Nat
  BY DepthAssumption, SMT DEF Valid, Buffers
<1>2. \A i \in 1 .. b.cnt : b.mem[Place(b, i)] \in Words
  BY PlaceType
<1> QED
  BY <1>1, <1>2, SMT DEF Contents

\* The place after the last word is the one to be written, and holds no word yet.
LEMMA WritePlace ==
  ASSUME NEW b, Valid(b), b.cnt < DEPTH
  PROVE  /\ b.wr_ptr = Place(b, b.cnt + 1)
         /\ \A i \in 1 .. b.cnt : Place(b, i) # b.wr_ptr
<1>1. b.rd_ptr \in Places /\ b.cnt \in 0 .. DEPTH
        /\ b.wr_ptr = IF b.rd_ptr + b.cnt < DEPTH THEN b.rd_ptr + b.cnt
                      ELSE b.rd_ptr + b.cnt - DEPTH
  BY DEF Valid, Buffers, Consistent
<1> QED
  BY <1>1, DepthAssumption, SMT DEF Place, Places

\* The read pointer's move renumbers the places.
LEMMA PlaceAfterRead ==
  ASSUME NEW b, Valid(b), NEW c, c.rd_ptr = Succ(b.rd_ptr), NEW i \in 1 .. DEPTH - 1
  PROVE  Place(c, i) = Place(b, i + 1)
<1>1. b.rd_ptr \in Places
  BY DEF Valid, Buffers
<1> QED
  BY <1>1, DepthAssumption, SMT DEF Place, Places, Succ

-----------------------------------------------------------------------------
(* One clock edge.                                                         *)

\* A place n places on from place p.
Ahead(p, n) == IF p + n < DEPTH THEN p + n ELSE p + n - DEPTH

\* Places around the end of the memory.
LEMMA Apart ==
  ASSUME NEW p \in Places, NEW n \in 0 .. DEPTH
  PROVE  /\ n # DEPTH => Succ(Ahead(p, n)) = Ahead(p, n + 1)
         /\ n # 0 => Ahead(Succ(p), n - 1) = Ahead(p, n)
         /\ n # DEPTH /\ n # 0 => Ahead(Succ(p), n) = Succ(Ahead(p, n))
<1>1. p \in Int /\ 0 <= p /\ p < DEPTH /\ n \in Int /\ 0 <= n /\ n <= DEPTH /\ DEPTH \in Int
  BY DepthAssumption, SMT DEF Places
<1>2. n # DEPTH => Succ(Ahead(p, n)) = Ahead(p, n + 1)
  BY <1>1, SMT DEF Ahead, Succ
<1>3. n # 0 => Ahead(Succ(p), n - 1) = Ahead(p, n)
  BY <1>1, SMT DEF Ahead, Succ
<1>4. n # DEPTH /\ n # 0 => Ahead(Succ(p), n) = Succ(Ahead(p, n))
  BY <1>1, SMT DEF Ahead, Succ
<1> QED
  BY <1>2, <1>3, <1>4

\* An edge of the clock keeps the pointers as far apart as the count.
LEMMA EdgeValid ==
  ASSUME NEW b, Valid(b), NEW w \in BOOLEAN, NEW d \in Words, NEW r \in BOOLEAN
  PROVE  Valid(FifoEdge(b, w, d, r))
<1> DEFINE c == FifoEdge(b, w, d, r)
           W == do_write(b, w)
           R == do_read(b, r)
<1>1. b.mem \in [Places -> Words] /\ b.rd_ptr \in Places /\ b.wr_ptr \in Places
        /\ b.cnt \in 0 .. DEPTH
        /\ b.wr_ptr = IF b.rd_ptr + b.cnt < DEPTH THEN b.rd_ptr + b.cnt
                      ELSE b.rd_ptr + b.cnt - DEPTH
  BY DEF Valid, Buffers, Consistent
<1>2. /\ c.mem = IF W THEN [b.mem EXCEPT ![b.wr_ptr] = d] ELSE b.mem
      /\ c.wr_ptr = IF W THEN Succ(b.wr_ptr) ELSE b.wr_ptr
      /\ c.rd_ptr = IF R THEN Succ(b.rd_ptr) ELSE b.rd_ptr
      /\ c.cnt = IF W = R THEN b.cnt ELSE IF W THEN b.cnt + 1 ELSE b.cnt - 1
  BY DEF FifoEdge
<1>3. (W => b.cnt # DEPTH) /\ (R => b.cnt # 0)
  BY DEF do_write, do_read
<1>4. W \in BOOLEAN /\ R \in BOOLEAN
  BY DEF do_write, do_read
<1>5. c.mem \in [Places -> Words] /\ b.mem[b.rd_ptr] \in Words
  BY <1>1, <1>2
<1>6. Succ(b.rd_ptr) \in Places /\ Succ(b.wr_ptr) \in Places
  BY <1>1, SuccPlace
<1>7. c.cnt = IF W /\ ~R THEN b.cnt + 1 ELSE IF ~W /\ R THEN b.cnt - 1 ELSE b.cnt
  BY <1>2, <1>4
<1>8. c.cnt \in 0 .. DEPTH
  <2> HIDE DEF c, W, R
  <2> QED
    BY <1>1, <1>7, <1>3, DepthAssumption, SMT
<1>9. c \in Buffers
  <2>1. c = [mem |-> c.mem, wr_ptr |-> c.wr_ptr, rd_ptr |-> c.rd_ptr,
             read_data |-> b.mem[b.rd_ptr], cnt |-> c.cnt]
    BY DEF FifoEdge
  <2>2. c.rd_ptr \in Places /\ c.wr_ptr \in Places
    BY <1>1, <1>2, <1>6
  <2> HIDE DEF c
  <2> QED
    BY <1>5, <1>8, <2>1, <2>2 DEF Buffers
<1>10. c.wr_ptr = Ahead(c.rd_ptr, c.cnt)
  <2>1. b.wr_ptr = Ahead(b.rd_ptr, b.cnt)
    BY <1>1 DEF Ahead
  <2>2. CASE W /\ R
    <3>1. c.wr_ptr = Succ(b.wr_ptr) /\ c.rd_ptr = Succ(b.rd_ptr) /\ c.cnt = b.cnt
            /\ b.cnt # DEPTH /\ b.cnt # 0
      BY <1>2, <1>3, <1>7, <2>2
    <3> QED
      BY <1>1, <2>1, <3>1, Apart
  <2>3. CASE W /\ ~R
    <3>1. c.wr_ptr = Succ(b.wr_ptr) /\ c.rd_ptr = b.rd_ptr /\ c.cnt = b.cnt + 1 /\ b.cnt # DEPTH
      BY <1>2, <1>3, <2>3
    <3> QED
      BY <1>1, <2>1, <3>1, Apart
  <2>4. CASE ~W /\ R
    <3>1. c.wr_ptr = b.wr_ptr /\ c.rd_ptr = Succ(b.rd_ptr) /\ c.cnt = b.cnt - 1 /\ b.cnt # 0
      BY <1>2, <1>3, <1>7, <2>4
    <3> QED
      BY <1>1, <2>1, <3>1, Apart
  <2>5. CASE ~W /\ ~R
    <3>1. c.wr_ptr = b.wr_ptr /\ c.rd_ptr = b.rd_ptr /\ c.cnt = b.cnt
      BY <1>2, <1>7, <2>5
    <3> QED
      BY <2>1, <3>1
  <2> QED
    BY <2>2, <2>3, <2>4, <2>5
<1> QED
  BY <1>9, <1>10 DEF Valid, Consistent, Ahead

\* What a buffer gives: its oldest word, a cycle after the place was selected.
THEOREM ReadsOldest ==
  ASSUME NEW b, Valid(b), b.cnt > 0, NEW w, NEW d, NEW r
  PROVE  FifoEdge(b, w, d, r).read_data = Head(Contents(b))
<1>1. Contents(b)[1] = b.mem[Place(b, 1)]
  BY DepthAssumption, SMT DEF Contents, Valid, Buffers
<1>2. Place(b, 1) = b.rd_ptr
  BY DepthAssumption, SMT DEF Place, Places, Valid, Buffers
<1>3. Contents(b) \in Seq(Words) /\ Contents(b) # <<>>
  BY ContentsType, DepthAssumption, EmptySeq, SMT DEF Valid, Buffers
<1>4. Head(Contents(b)) = Contents(b)[1]
  BY <1>3, SMT
<1> QED
  BY <1>1, <1>2, <1>4 DEF FifoEdge
\* The words that are left when one is taken, or is not.
Left(b, taking) == IF taking THEN Tail(Contents(b)) ELSE Contents(b)

\* They are in the places as the moved read pointer numbers them.
LEMMA LeftInPlace ==
  ASSUME NEW b, Valid(b), NEW R \in BOOLEAN, R => b.cnt # 0,
         NEW c, c.rd_ptr = IF R THEN Succ(b.rd_ptr) ELSE b.rd_ptr
  PROVE  /\ Left(b, R) \in Seq(Words)
         /\ Len(Left(b, R)) = IF R THEN b.cnt - 1 ELSE b.cnt
         /\ \A i \in 1 .. Len(Left(b, R)) :
              /\ Left(b, R)[i] = b.mem[Place(c, i)]
              /\ b.cnt < DEPTH => Place(c, i) # b.wr_ptr
         /\ b.cnt < DEPTH => Place(c, Len(Left(b, R)) + 1) = b.wr_ptr
<1> DEFINE q == Contents(b)
<1>1. b.cnt \in 0 .. DEPTH /\ b.cnt \in Int
  BY DepthAssumption, SMT DEF Valid, Buffers
<1>2. q \in Seq(Words) /\ Len(q) = b.cnt
  BY ContentsType
<1>3. \A i \in 1 .. b.cnt : q[i] = b.mem[Place(b, i)]
  BY DEF Contents
<1> HIDE DEF q
<1>4. CASE R
  <2>1. b.cnt # 0 /\ q # <<>>
    BY <1>1, <1>2, <1>4, EmptySeq
  <2>2. Tail(q) \in Seq(Words) /\ Len(Tail(q)) = b.cnt - 1
          /\ \A i \in 1 .. b.cnt - 1 : Tail(q)[i] = q[i + 1]
    BY <1>2, <2>1, HeadTailProperties
  <2>3. \A i \in 1 .. DEPTH - 1 : Place(c, i) = Place(b, i + 1)
    BY <1>4, PlaceAfterRead
  <2>4. ASSUME NEW i \in 1 .. b.cnt - 1
        PROVE  /\ Tail(q)[i] = b.mem[Place(c, i)]
               /\ b.cnt < DEPTH => Place(c, i) # b.wr_ptr
    <3>1. i \in 1 .. DEPTH - 1 /\ i + 1 \in 1 .. b.cnt
      BY <1>1, DepthAssumption, SMT
    <3> QED
      BY <1>3, <2>2, <2>3, <3>1, WritePlace
  <2>5. b.cnt < DEPTH => Place(c, (b.cnt - 1) + 1) = b.wr_ptr
    <3>1. (b.cnt - 1) + 1 = b.cnt
      BY <1>1, SMT
    <3>2. b.cnt < DEPTH => b.cnt \in 1 .. DEPTH - 1
      BY <1>1, <2>1, DepthAssumption, SMT
    <3> QED
      BY <2>3, <3>1, <3>2, WritePlace
  <2>6. Left(b, R) = Tail(q)
    BY <1>4 DEF Left, q
  <2> QED
    BY <1>4, <2>2, <2>4, <2>5, <2>6
<1>5. CASE ~R
  <2>1. \A i \in Int : Place(c, i) = Place(b, i)
    BY <1>5 DEF Place
  <2>2. \A i \in 1 .. b.cnt : q[i] = b.mem[Place(c, i)] /\ (b.cnt < DEPTH => Place(c, i) # b.wr_ptr)
    <3>1. \A i \in 1 .. b.cnt : i \in Int
      OBVIOUS
    <3> QED
      BY <1>3, <2>1, <3>1, WritePlace
  <2>3. b.cnt < DEPTH => Place(c, b.cnt + 1) = b.wr_ptr
    BY <1>1, <2>1, WritePlace
  <2>4. Left(b, R) = q
    BY <1>5 DEF Left, q
  <2> QED
    BY <1>2, <1>5, <2>2, <2>3, <2>4
<1> QED
  BY <1>4, <1>5

\* The buffer is a queue, wherever in the memory it lies: of a clock edge's strobes
\* the read takes the oldest word and the write appends one, unless the buffer is
\* empty or was full before the edge (do_read, do_write).  So the word that
\* MAC_ON_BUFFER takes from a buffer with a free place and writes back is its last
\* word then, and from a full buffer it is lost.
THEOREM EdgeIsQueueStep ==
  ASSUME NEW b, Valid(b), NEW w \in BOOLEAN, NEW d \in Words, NEW r \in BOOLEAN
  PROVE  /\ Valid(FifoEdge(b, w, d, r))
         /\ Contents(FifoEdge(b, w, d, r)) =
              IF w /\ b.cnt # DEPTH THEN Append(Left(b, r /\ b.cnt # 0), d)
              ELSE Left(b, r /\ b.cnt # 0)
<1> DEFINE c == FifoEdge(b, w, d, r)
           W == do_write(b, w)
           R == do_read(b, r)
           taken == Left(b, R)
           n == IF R THEN b.cnt - 1 ELSE b.cnt
<1>1. b.mem \in [Places -> Words] /\ b.wr_ptr \in Places /\ b.cnt \in 0 .. DEPTH
        /\ b.cnt \in Int /\ DEPTH \in Int
  BY DepthAssumption, SMT DEF Valid, Buffers
<1>2. W \in BOOLEAN /\ R \in BOOLEAN /\ (R => b.cnt # 0) /\ (W => b.cnt # DEPTH)
  BY DEF do_write, do_read
<1>3. /\ c.mem = IF W THEN [b.mem EXCEPT ![b.wr_ptr] = d] ELSE b.mem
      /\ c.rd_ptr = IF R THEN Succ(b.rd_ptr) ELSE b.rd_ptr
      /\ c.cnt = IF W = R THEN b.cnt ELSE IF W THEN b.cnt + 1 ELSE b.cnt - 1
  BY DEF FifoEdge
<1>4. /\ taken \in Seq(Words) /\ Len(taken) = n
      /\ \A i \in 1 .. n : /\ taken[i] = b.mem[Place(c, i)]
                           /\ b.cnt < DEPTH => Place(c, i) # b.wr_ptr
      /\ b.cnt < DEPTH => Place(c, n + 1) = b.wr_ptr
  <2> HIDE DEF c, R
  <2>0. R \in BOOLEAN /\ (R => b.cnt # 0) /\ c.rd_ptr = IF R THEN Succ(b.rd_ptr) ELSE b.rd_ptr
    BY <1>2, <1>3
  <2>1. /\ taken \in Seq(Words) /\ Len(taken) = n
        /\ \A i \in 1 .. Len(taken) : /\ taken[i] = b.mem[Place(c, i)]
                                      /\ b.cnt < DEPTH => Place(c, i) # b.wr_ptr
        /\ b.cnt < DEPTH => Place(c, Len(taken) + 1) = b.wr_ptr
    BY <2>0, LeftInPlace
  <2> HIDE DEF taken, n
  <2> QED
    BY <2>1
<1>5. Valid(c)
  BY EdgeValid
<1>6. Contents(c) \in Seq(Words) /\ Len(Contents(c)) = c.cnt
        /\ \A i \in 1 .. c.cnt : Contents(c)[i] = c.mem[Place(c, i)]
  <2> HIDE DEF c
  <2>1. \A i \in 1 .. c.cnt : Contents(c)[i] = c.mem[Place(c, i)]
    BY DEF Contents
  <2> QED
    BY <1>5, <2>1, ContentsType
<1>7. n \in Nat
  BY <1>1, <1>2, SMT
<1>8. CASE W
  <2>1. b.cnt < DEPTH
    BY <1>1, <1>2, <1>8, SMT
  <2>2. c.cnt = n + 1
    <3>1. R => c.cnt = b.cnt
      BY <1>2, <1>3, <1>8
    <3>2. ~R => c.cnt = b.cnt + 1
      BY <1>2, <1>3, <1>8
    <3> HIDE DEF c, R
    <3> QED
      BY <1>1, <3>1, <3>2, SMT
  <2>3. Append(taken, d) \in Seq(Words) /\ Len(Append(taken, d)) = n + 1
          /\ \A i \in 1 .. n : Append(taken, d)[i] = taken[i]
          /\ Append(taken, d)[n + 1] = d
    <3> HIDE DEF taken, n
    <3> QED
      BY <1>4, AppendProperties
  <2>4. ASSUME NEW i \in 1 .. n + 1
        PROVE  Contents(c)[i] = Append(taken, d)[i]
    <3>0. c.mem = [b.mem EXCEPT ![b.wr_ptr] = d] /\ Contents(c)[i] = c.mem[Place(c, i)]
      BY <1>3, <1>6, <1>8, <2>2
    <3>1. CASE i = n + 1
      <4>1. Place(c, i) = b.wr_ptr
        BY <1>4, <2>1, <3>1
      <4> HIDE DEF c, taken, n
      <4> QED
        BY <1>1, <2>3, <3>0, <3>1, <4>1
    <3>2. CASE i # n + 1
      <4>1. i \in 1 .. n
        BY <1>7, <3>2, SMT
      <4>2. /\ Place(c, i) # b.wr_ptr /\ taken[i] = b.mem[Place(c, i)]
            /\ Append(taken, d)[i] = taken[i]
        BY <1>4, <2>1, <2>3, <4>1
      <4>3. Place(c, i) \in Places
        <5>1. i \in 1 .. c.cnt
          BY <2>2
        <5> HIDE DEF c
        <5> QED
          BY <1>5, <5>1, PlaceType
      <4> HIDE DEF c, taken, n
      <4> QED
        BY <1>1, <3>0, <4>2, <4>3
    <3> QED
      BY <3>1, <3>2
  <2>5. Contents(c) = Append(taken, d)
    <3> HIDE DEF c, taken, n
    <3> QED
      BY <1>6, <2>2, <2>3, <2>4, SeqEqual
  <2> QED
    BY <1>5, <1>8, <2>5 DEF do_write, do_read
<1>9. CASE ~W
  <2>1. c.cnt = n /\ c.mem = b.mem
    BY <1>2, <1>3, <1>9
  <2>2. Contents(c) = taken
    <3> HIDE DEF c, taken, n
    <3> QED
      BY <1>4, <1>6, <2>1, SeqEqual
  <2> QED
    BY <1>5, <1>9, <2>2 DEF do_write, do_read
<1> QED
  BY <1>8, <1>9

-----------------------------------------------------------------------------
(* Quotients: how the channels of a group share the filter banks.          *)

\* The number of the first m channels of a group that use bank b.
Share(b, m) == m \div FILTER_BANKS + (IF b < m % FILTER_BANKS THEN 1 ELSE 0)

\* Quotient and remainder.
LEMMA Division ==
  ASSUME NEW m \in Nat, NEW n \in Nat \ {0}
  PROVE  /\ m \div n \in Nat /\ m % n \in 0 .. n - 1
         /\ m = n * (m \div n) + (m % n)
  BY Z3

\* A quotient and remainder are the only ones.
LEMMA Quotient ==
  ASSUME NEW n \in Nat \ {0}, NEW q \in Nat, NEW r \in 0 .. n - 1
  PROVE  (n * q + r) \div n = q /\ (n * q + r) % n = r
<1> DEFINE m == n * q + r
           p == m \div n
           s == m % n
<1>1. m \in Nat
  BY SMT
<1>2. p \in Nat /\ s \in 0 .. n - 1 /\ m = n * p + s
  BY <1>1, Division
<1> HIDE DEF p, s
<1>3. p = q
  <2>1. ~(p < q)
    <3>1. SUFFICES ASSUME p < q PROVE FALSE
      OBVIOUS
    <3>2. n * p + n <= n * q
      BY <1>2, <3>1, SMT
    <3> QED
      BY <1>2, <3>2, SMT
  <2>2. ~(q < p)
    <3>1. SUFFICES ASSUME q < p PROVE FALSE
      OBVIOUS
    <3>2. n * q + n <= n * p
      BY <1>2, <3>1, SMT
    <3> QED
      BY <1>2, <3>2, SMT
  <2> QED
    BY <1>2, <2>1, <2>2, SMT
<1> QED
  BY <1>2, <1>3, SMT DEF p, s

\* The quotient and remainder of the next number.
LEMMA NextQuotient ==
  ASSUME NEW m \in Nat, NEW n \in Nat \ {0}
  PROVE  /\ m % n # n - 1 => (m + 1) \div n = m \div n /\ (m + 1) % n = (m % n) + 1
         /\ m % n = n - 1 => (m + 1) \div n = (m \div n) + 1 /\ (m + 1) % n = 0
<1> DEFINE q == m \div n
           r == m % n
<1>1. q \in Nat /\ r \in 0 .. n - 1 /\ m = n * q + r
  BY Division
<1> HIDE DEF q, r
<1>2. CASE r # n - 1
  <2>1. r + 1 \in 0 .. n - 1 /\ m + 1 = n * q + (r + 1)
    BY <1>1, <1>2, SMT
  <2>2. (m + 1) \div n = q /\ (m + 1) % n = r + 1
    BY <1>1, <2>1, Quotient
  <2> QED
    BY <1>2, <2>2 DEF q, r
<1>3. CASE r = n - 1
  <2>1. q + 1 \in Nat /\ 0 \in 0 .. n - 1 /\ m + 1 = n * (q + 1) + 0
    BY <1>1, <1>3, SMT
  <2>2. (n * (q + 1) + 0) \div n = q + 1 /\ (n * (q + 1) + 0) % n = 0
    BY <2>1, Quotient
  <2>3. (m + 1) \div n = q + 1 /\ (m + 1) % n = 0
    BY <2>1, <2>2
  <2> QED
    BY <1>1, <1>3, <2>3, SMT DEF q, r
<1> QED
  BY <1>2, <1>3

\* A bank's share is a number, and nothing of nothing.
LEMMA ShareType ==
  ASSUME NEW b \in Banks, NEW m \in Nat
  PROVE  Share(b, m) \in Nat /\ m % FILTER_BANKS \in Banks /\ Share(b, 0) = 0
<1>1. FILTER_BANKS \in Nat \ {0} /\ b \in 0 .. FILTER_BANKS - 1
  BY BanksAssumption DEF Banks
<1>2. m \div FILTER_BANKS \in Nat /\ m % FILTER_BANKS \in 0 .. FILTER_BANKS - 1
  BY <1>1, Division
<1>3. Share(b, m) \in Nat
  BY <1>2, SMT DEF Share
<1>4. 0 \div FILTER_BANKS = 0 /\ 0 % FILTER_BANKS = 0
  <2>1. 0 \in 0 .. FILTER_BANKS - 1 /\ FILTER_BANKS * 0 + 0 = 0
    BY <1>1, SMT
  <2> QED
    BY <1>1, <2>1, Quotient
<1>5. Share(b, 0) = 0
  BY <1>1, <1>4, SMT DEF Share
<1> QED
  BY <1>2, <1>3, <1>5 DEF Banks

\* One more channel is one more for its own bank.
LEMMA ShareNext ==
  ASSUME NEW b \in Banks, NEW m \in Nat
  PROVE  /\ Share(b, m + 1) = Share(b, m) + (IF b = m % FILTER_BANKS THEN 1 ELSE 0)
         /\ (m + 1) % FILTER_BANKS = ((m % FILTER_BANKS) + 1) % FILTER_BANKS
<1> DEFINE n == FILTER_BANKS
           q == m \div n
           r == m % n
<1>1. n \in Nat \ {0} /\ b \in 0 .. n - 1
  BY BanksAssumption DEF Banks
<1>2. q \in Nat /\ r \in 0 .. n - 1
  BY <1>1, Division
<1>3. /\ r # n - 1 => (m + 1) \div n = q /\ (m + 1) % n = r + 1
      /\ r = n - 1 => (m + 1) \div n = q + 1 /\ (m + 1) % n = 0
  BY <1>1, NextQuotient
<1>4. /\ Share(b, m) = q + (IF b < r THEN 1 ELSE 0)
      /\ Share(b, m + 1) = (m + 1) \div n + (IF b < (m + 1) % n THEN 1 ELSE 0)
  BY DEF Share
<1>5. r # n - 1 => (r + 1) % n = r + 1
  <2>1. SUFFICES ASSUME r # n - 1 PROVE (r + 1) % n = r + 1
    OBVIOUS
  <2>2. r + 1 \in 0 .. n - 1 /\ n * 0 + (r + 1) = r + 1
    <3> HIDE DEF r, n
    <3> QED
      BY <1>1, <1>2, <2>1, SMT
  <2> HIDE DEF r, n
  <2> QED
    BY <1>1, <2>2, Quotient
<1>6. r = n - 1 => (r + 1) % n = 0
  <2>1. n * 1 + 0 = n /\ 0 \in 0 .. n - 1 /\ 1 \in Nat /\ (n - 1) + 1 = n
    <3> HIDE DEF n
    <3> QED
      BY <1>1, SMT
  <2>2. n % n = 0
    <3> HIDE DEF n
    <3> QED
      BY <1>1, <2>1, Quotient
  <2> QED
    BY <2>1, <2>2
<1>7. Share(b, m + 1) = Share(b, m) + (IF b = r THEN 1 ELSE 0)
  <2> DEFINE s == Share(b, m)
             t == Share(b, m + 1)
             q1 == (m + 1) \div n
             r1 == (m + 1) % n
  <2>1. s = q + (IF b < r THEN 1 ELSE 0) /\ t = q1 + (IF b < r1 THEN 1 ELSE 0)
    BY <1>4
  <2>2. (r # n - 1 => q1 = q /\ r1 = r + 1) /\ (r = n - 1 => q1 = q + 1 /\ r1 = 0)
    BY <1>3
  <2> HIDE DEF s, t, q1, r1, q, r, n
  <2>3. t = s + (IF b = r THEN 1 ELSE 0)
    BY <1>1, <1>2, <2>1, <2>2, SMT
  <2> QED
    BY <2>3 DEF s, t
<1> QED
  BY <1>3, <1>5, <1>6, <1>7

\* A bank's share grows with the channels, and no bank has more than the first.
LEMMA ShareMonotonic ==
  ASSUME NEW b \in Banks, NEW m \in Nat, NEW n \in Nat, m <= n
  PROVE  /\ Share(b, m) <= Share(b, n)
         /\ m < n /\ b = m % FILTER_BANKS => Share(b, m) + 1 <= Share(b, n)
         /\ Share(b, n) <= (n + FILTER_BANKS - 1) \div FILTER_BANKS
<1> DEFINE F == FILTER_BANKS
           q == m \div F
           r == m % F
           p == n \div F
           s == n % F
           N == n + F - 1
           x == N \div F
           y == N % F
           sm == Share(b, m)
           sn == Share(b, n)
<1>1. F \in Nat \ {0} /\ b \in 0 .. F - 1
  BY BanksAssumption DEF Banks
<1>2. q \in Nat /\ r \in 0 .. F - 1 /\ m = F * q + r
  BY <1>1, Division
<1>3. p \in Nat /\ s \in 0 .. F - 1 /\ n = F * p + s
  BY <1>1, Division
<1>4. N \in Nat
  BY <1>1, SMT
<1>5. x \in Nat /\ y \in 0 .. F - 1 /\ N = F * x + y
  BY <1>1, <1>4, Division
<1>6. sm = q + (IF b < r THEN 1 ELSE 0) /\ sn = p + (IF b < s THEN 1 ELSE 0)
  BY DEF Share
<1>7. N = n + F - 1
  OBVIOUS
<1> HIDE DEF F, q, r, p, s, N, x, y, sm, sn
<1>8. q <= p
  <2>1. SUFFICES ASSUME p + 1 <= q PROVE FALSE
    BY <1>2, <1>3, SMT
  <2>2. F * p + F <= F * q
    BY <1>1, <1>2, <1>3, <2>1, SMT
  <2> QED
    BY <1>1, <1>2, <1>3, <2>2, SMT
<1>9. q = p => r <= s /\ (m < n => r < s)
  BY <1>1, <1>2, <1>3, SMT
<1>10. sm <= sn /\ (m < n /\ b = r => sm + 1 <= sn)
  BY <1>1, <1>2, <1>3, <1>6, <1>8, <1>9, SMT
<1>11. p <= x /\ (s > 0 => p + 1 <= x)
  <2>1. p <= x
    <3>1. SUFFICES ASSUME x + 1 <= p PROVE FALSE
      BY <1>3, <1>5, SMT
    <3>2. F * x + F <= F * p
      BY <1>1, <1>5, <1>3, <3>1, SMT
    <3> QED
      BY <1>1, <1>3, <1>5, <1>7, <3>2, SMT
  <2>2. s > 0 => x # p
    <3>1. SUFFICES ASSUME s > 0, x = p PROVE FALSE
      OBVIOUS
    <3>2. F * x = F * p
      BY <3>1
    <3> QED
      BY <1>1, <1>3, <1>5, <1>7, <3>1, <3>2, SMT
  <2> QED
    BY <1>3, <1>5, <2>1, <2>2, SMT
<1>12. sn <= x
  BY <1>1, <1>3, <1>5, <1>6, <1>11, SMT
<1> QED
  BY <1>10, <1>12 DEF sm, sn, r, x, N, F

\* The words of a bank's share fit into it (GenConv's Fits).
LEMMA ShareFits ==
  ASSUME NEW s, s.channels \in Nat \ {0}, s.words \in Nat \ {0}, s.group \in Nat \ {0}, Fits(s),
         NEW b \in Banks, NEW m \in Nat, m <= Minimum(s.channels, s.group)
  PROVE  Share(b, m) * s.words < DEPTH /\ s.words < DEPTH
<1> DEFINE n == Minimum(s.channels, s.group)
           x == (n + FILTER_BANKS - 1) \div FILTER_BANKS
           w == s.words
           F == FILTER_BANKS
<1>1. n \in Nat \ {0} /\ m <= n /\ w \in Nat \ {0} /\ F \in Nat \ {0} /\ DEPTH \in Nat
  BY BanksAssumption, DepthAssumption DEF Minimum
<1>2. x * w < DEPTH
  BY DEF Fits
<1>3. Share(b, m) <= Share(b, n) /\ Share(b, n) <= x /\ Share(b, m) \in Nat /\ Share(b, n) \in Nat
  <2> HIDE DEF n
  <2> QED
    BY <1>1, ShareMonotonic, ShareType
<1>4. x \in Nat /\ 1 <= x
  <2>1. n + F - 1 \in Nat
    <3> HIDE DEF n, F
    <3> QED
      BY <1>1, SMT
  <2>2. x \in Nat /\ (n + F - 1) % F \in 0 .. F - 1 /\ n + F - 1 = F * x + ((n + F - 1) % F)
    BY <1>1, <2>1, Division
  <2>3. x # 0
    <3>1. SUFFICES ASSUME x = 0 PROVE FALSE
      OBVIOUS
    <3>2. F * x = 0
      <4> HIDE DEF F, x
      <4> QED
        BY <1>1, <3>1, SMT
    <3> HIDE DEF n, F, x
    <3> QED
      BY <1>1, <2>2, <3>2, SMT
  <2> HIDE DEF x
  <2> QED
    BY <2>2, <2>3, SMT
<1> DEFINE y == Share(b, m)
<1>5. y <= x /\ y \in Nat
  <2>1. Share(b, n) <= x /\ Share(b, m) <= Share(b, n) /\ Share(b, m) \in Nat /\ Share(b, n) \in Nat
    BY <1>3
  <2> HIDE DEF n, x
  <2> QED
    BY <1>4, <2>1, SMT
<1> HIDE DEF n, x, w, F, y
<1>6. y * w <= x * w /\ w <= x * w
  BY <1>1, <1>4, <1>5, SMT
<1>7. y * w < DEPTH /\ w < DEPTH
  BY <1>1, <1>2, <1>4, <1>5, <1>6, SMT
<1> QED
  BY <1>7 DEF y, w

\* The i-th channel of those that share bank b.
LEMMA SharedChannel ==
  ASSUME NEW g \in Nat, NEW e \in Nat, g <= e + 1, NEW b \in Banks,
         NEW i \in 1 .. Share(b, e - g + 1)
  PROVE  /\ g + b + FILTER_BANKS * (i - 1) \in g .. e
         /\ ((g + b + FILTER_BANKS * (i - 1)) - g) % FILTER_BANKS = b
<1> DEFINE F == FILTER_BANKS
           m == e - g + 1
           n == Share(b, m)
           q == m \div F
           r == m % F
<1>1. F \in Nat \ {0} /\ b \in 0 .. F - 1 /\ m \in Nat
  BY BanksAssumption, SMT DEF Banks
<1>2. n \in Nat /\ i \in 1 .. n
  <2>1. n \in Nat
    <3> HIDE DEF m
    <3> QED
      BY <1>1, ShareType
  <2>2. i \in 1 .. n
    OBVIOUS
  <2> QED
    BY <2>1, <2>2
<1>3. q \in Nat /\ r \in 0 .. F - 1 /\ m = F * q + r
  <2> HIDE DEF m
  <2> QED
    BY <1>1, Division
<1>4. n = q + (IF b < r THEN 1 ELSE 0)
  BY DEF Share
<1>5. m = e - g + 1
  OBVIOUS
<1>6. F * (i - 1) + b <= m - 1
  <2> HIDE DEF m, n, q, r, F
  <2>1. CASE i <= q
    <3>1. F * (i - 1) + F <= F * q
      BY <1>1, <1>2, <1>3, <2>1, SMT
    <3>2. F * (i - 1) \in Int /\ F * q \in Int
      BY <1>1, <1>3, <1>2, SMT
    <3> DEFINE u == F * (i - 1)
               v == F * q
    <3> HIDE DEF u, v
    <3>3. u + F <= v /\ u \in Int /\ v \in Int /\ m = v + r
      BY <3>1, <3>2, <1>3 DEF u, v
    <3>4. u + b <= m - 1
      BY <1>1, <1>3, <3>3, SMT
    <3> QED
      BY <3>4 DEF u
  <2>2. CASE i > q
    <3>1. i - 1 = q /\ b < r
      BY <1>1, <1>2, <1>3, <1>4, <2>2, SMT
    <3>2. F * (i - 1) = F * q /\ F * q \in Int
      BY <1>1, <1>3, <3>1, SMT
    <3> DEFINE u == F * (i - 1)
               v == F * q
    <3> HIDE DEF u, v
    <3>3. u = v /\ v \in Int /\ m = v + r
      BY <3>2, <1>3 DEF u, v
    <3>4. u + b <= m - 1
      BY <1>1, <1>3, <3>1, <3>3, SMT
    <3> QED
      BY <3>4 DEF u
  <2> QED
    BY <1>2, <1>3, <2>1, <2>2, SMT
<1>7. F * (i - 1) \in Nat
  BY <1>1, <1>2, SMT
<1>8. g + b + F * (i - 1) \in g .. e /\ (g + b + F * (i - 1)) - g = F * (i - 1) + b
  <2> DEFINE u == F * (i - 1)
  <2>1. u \in Nat /\ u + b <= m - 1
    BY <1>6, <1>7
  <2> HIDE DEF u, m, F
  <2>2. g + b + u \in g .. e /\ (g + b + u) - g = u + b
    BY <1>1, <1>5, <2>1, SMT
  <2> QED
    BY <2>2 DEF u
<1>9. (F * (i - 1) + b) % F = b
  <2>1. i - 1 \in Nat
    BY <1>2, SMT
  <2> QED
    BY <1>1, <2>1, Quotient
<1> QED
  BY <1>8, <1>9

\* The channels of a group that share a bank, counted.
LEMMA SharingCounted ==
  ASSUME NEW g \in Nat, NEW e \in Nat, g <= e + 1, NEW b \in Banks
  PROVE  Cardinality({ch \in g .. e : (ch - g) % FILTER_BANKS = b}) = Share(b, e - g + 1)
<1> DEFINE F == FILTER_BANKS
           S == {ch \in g .. e : (ch - g) % F = b}
           m == e - g + 1
           n == Share(b, m)
           f == [i \in 1 .. n |-> g + b + F * (i - 1)]
<1>1. F \in Nat \ {0} /\ b \in 0 .. F - 1 /\ m \in Nat
  BY BanksAssumption, SMT DEF Banks
<1>2. n \in Nat
  <2> HIDE DEF m
  <2> QED
    BY <1>1, ShareType
<1> DEFINE q == m \div F
           r == m % F
<1>3. q \in Nat /\ r \in 0 .. F - 1 /\ m = F * q + r
  <2> HIDE DEF m
  <2> QED
    BY <1>1, Division
<1>4. n = q + (IF b < r THEN 1 ELSE 0)
  BY DEF Share
<1>5. m = e - g + 1
  OBVIOUS
<1>6. ASSUME NEW i \in 1 .. n
      PROVE  f[i] \in S
  <2>1. g + b + F * (i - 1) \in g .. e /\ ((g + b + F * (i - 1)) - g) % F = b
    BY SharedChannel
  <2>2. f[i] = g + b + F * (i - 1)
    OBVIOUS
  <2> QED
    BY <2>1, <2>2
<1>7. ASSUME NEW i \in 1 .. n, NEW j \in 1 .. n, f[i] = f[j]
      PROVE  i = j
  <2>1. g + b + F * (i - 1) = g + b + F * (j - 1)
    BY <1>7
  <2> HIDE DEF n, F, f
  <2>2. F * (i - 1) = F * (j - 1)
    BY <1>1, <1>2, <2>1, SMT
  <2>3. ~(i < j) /\ ~(j < i)
    BY <1>1, <1>2, <2>2, SMT
  <2> QED
    BY <1>2, <2>3, SMT
<1>8. ASSUME NEW ch \in S
      PROVE  \E i \in 1 .. n : f[i] = ch
  <2> DEFINE c == ch - g
             p == c \div F
  <2>1. ch \in g .. e /\ c % F = b /\ c \in Nat /\ c <= m - 1
    BY SMT
  <2>2. p \in Nat /\ c = F * p + b
    <3> HIDE DEF c
    <3>1. p \in Nat /\ c = F * p + (c % F)
      BY <1>1, <2>1, Division
    <3> QED
      BY <2>1, <3>1
  <2>3. p + 1 \in 1 .. n
    <3> HIDE DEF m, n, q, r, F, f, S, c, p
    <3>1. p <= q
      <4>1. SUFFICES ASSUME q + 1 <= p PROVE FALSE
        BY <1>3, <2>2, SMT
      <4>2. F * q + F <= F * p
        BY <1>1, <1>3, <2>2, <4>1, SMT
      <4> QED
        BY <1>1, <1>3, <2>1, <2>2, <4>2, SMT
    <3>2. p = q => b < r
      BY <1>1, <1>3, <2>1, <2>2, SMT
    <3> QED
      BY <1>1, <1>3, <1>4, <2>2, <3>1, <3>2, SMT
  <2>4. f[p + 1] = g + b + F * ((p + 1) - 1)
    <3> HIDE DEF n, p
    <3> QED
      BY <2>3
  <2>5. (p + 1) - 1 = p /\ g + b + F * p = ch
    <3>1. F * p \in Nat /\ ch \in Int /\ ch = g + (F * p + b)
      <4>1. F * p \in Nat
        BY <1>1, <2>2, SMT
      <4> HIDE DEF p
      <4> QED
        BY <2>1, <2>2, <4>1, SMT
    <3> DEFINE u == F * p
    <3> HIDE DEF p, u
    <3>2. u \in Nat /\ ch = g + (u + b)
      BY <3>1 DEF u
    <3>3. (p + 1) - 1 = p /\ g + b + u = ch
      BY <1>1, <2>2, <3>2, SMT
    <3> QED
      BY <3>3 DEF u
  <2> QED
    BY <2>3, <2>4, <2>5
<1>9. f \in Bijection(1 .. n, S)
  <2>1. f \in [1 .. n -> S]
    <3> HIDE DEF S, n
    <3> QED
      BY <1>6
  <2> HIDE DEF S, n, f
  <2> QED
    BY <1>7, <1>8, <2>1, Fun_IsBij
<1>10. Cardinality(S) = n
  <2> HIDE DEF S, n, f
  <2>1. ExistsBijection(1 .. n, S)
    BY <1>9 DEF ExistsBijection
  <2>2. IsFiniteSet(1 .. n) /\ Cardinality(1 .. n) = n
    <3>1. IsFiniteSet(1 .. n) /\ Cardinality(1 .. n) = IF 1 > n THEN 0 ELSE n - 1 + 1
      BY <1>2, FS_Interval
    <3> QED
      BY <1>2, <3>1, SMT
  <2> QED
    BY <2>1, <2>2, FS_Bijection
<1> QED
  BY <1>10

-----------------------------------------------------------------------------
(* Sequences, and queues whose words go round.                             *)

\* Functions on 1 .. n are sequences.
LEMMA FunctionIsSequence ==
  ASSUME NEW S, NEW c \in Nat, NEW s \in [1 .. c -> S]
  PROVE  s \in Seq(S) /\ Len(s) = c
  BY SMT

\* The elements of a sequence to which one is appended.
LEMMA AppendElements ==
  ASSUME NEW S, NEW s \in Seq(S), NEW x \in S
  PROVE  /\ Append(s, x) \in Seq(S) /\ Len(Append(s, x)) = Len(s) + 1
         /\ Append(s, x)[Len(s) + 1] = x /\ \A j \in 1 .. Len(s) : Append(s, x)[j] = s[j]
         /\ Len(s) \in Nat
  BY SMT

\* The elements of a sequence whose first is taken.
LEMMA TailElements ==
  ASSUME NEW S, NEW s \in Seq(S), s # <<>>
  PROVE  /\ Tail(s) \in Seq(S) /\ Len(Tail(s)) = Len(s) - 1
         /\ \A j \in 1 .. Len(s) - 1 : Tail(s)[j] = s[j + 1]
         /\ Head(s) = s[1] /\ Head(s) \in S /\ Len(s) \in Nat \ {0}
  BY SMT

\* A queue after n of its words, of at most all, were taken and put back.
Turned(q, n) ==
  [i \in 1 .. Len(q) |-> q[IF i + n <= Len(q) THEN i + n ELSE i + n - Len(q)]]

\* A turned queue has the words it had.
LEMMA TurnedType ==
  ASSUME NEW S, NEW q \in Seq(S), NEW n \in 0 .. Len(q)
  PROVE  Turned(q, n) \in Seq(S) /\ Len(Turned(q, n)) = Len(q)
<1>1. Len(q) \in Nat /\ \A i \in 1 .. Len(q) : q[i] \in S
  BY LenProperties, ElementOfSeq
<1>2. ASSUME NEW i \in 1 .. Len(q)
      PROVE  (IF i + n <= Len(q) THEN i + n ELSE i + n - Len(q)) \in 1 .. Len(q)
  BY <1>1, SMT
<1>3. Turned(q, n) \in [1 .. Len(q) -> S]
  BY <1>1, <1>2 DEF Turned
<1> QED
  BY <1>1, <1>3, FunctionIsSequence

\* The words of a turned queue.
LEMMA TurnedAt ==
  ASSUME NEW q, NEW n \in Int, Len(q) \in Nat, NEW i \in 1 .. Len(q)
  PROVE  /\ i + n <= Len(q) => Turned(q, n)[i] = q[i + n]
         /\ i + n > Len(q) => Turned(q, n)[i] = q[i + n - Len(q)]
<1>1. i + n > Len(q) => ~(i + n <= Len(q))
  BY SMT
<1> QED
  BY <1>1 DEF Turned

\* A whole turn leaves a queue as it was.
LEMMA TurnedRound ==
  ASSUME NEW S, NEW q \in Seq(S)
  PROVE  Turned(q, 0) = q /\ Turned(q, Len(q)) = q
<1> DEFINE l == Len(q)
<1>1. l \in Nat
  BY LenProperties
<1>2. \A n \in {0, l} : \A i \in 1 .. l : (IF i + n <= l THEN i + n ELSE i + n - l) = i
  <2> HIDE DEF l
  <2> QED
    BY <1>1, SMT
<1>3. ASSUME NEW n \in {0, l}
      PROVE  Turned(q, n) = q
  <2>1. n \in 0 .. l
    <3> HIDE DEF l
    <3> QED
      BY <1>1, SMT
  <2>2. Turned(q, n) \in Seq(S) /\ Len(Turned(q, n)) = l
    BY <2>1, TurnedType
  <2>3. \A i \in 1 .. l : Turned(q, n)[i] = q[i]
    BY <1>2 DEF Turned
  <2> QED
    BY <2>2, <2>3, SeqEqual
<1> QED
  BY <1>3

\* To take a word and put it back at the end turns the queue on by one.
LEMMA TurnedNext ==
  ASSUME NEW S, NEW q \in Seq(S), NEW n \in 0 .. Len(q) - 1
  PROVE  /\ Turned(q, n) # <<>> /\ Head(Turned(q, n)) = q[n + 1]
         /\ Append(Tail(Turned(q, n)), Head(Turned(q, n))) = Turned(q, n + 1)
<1> DEFINE l == Len(q)
           t == Turned(q, n)
           u == Turned(q, n + 1)
           v == Append(Tail(t), Head(t))
<1>1. l \in Nat \ {0} /\ n \in 0 .. l /\ n + 1 \in 0 .. l /\ 1 + n <= l /\ 1 + n = n + 1
  <2>1. l \in Nat /\ n \in 0 .. l - 1
    BY LenProperties
  <2> HIDE DEF l
  <2> QED
    BY <2>1, SMT
<1>2. t \in Seq(S) /\ Len(t) = l /\ u \in Seq(S) /\ Len(u) = l
  BY <1>1, TurnedType
<1>3. ASSUME NEW i \in 1 .. l
      PROVE  /\ i + n <= l => t[i] = q[i + n]
             /\ i + n > l => t[i] = q[i + n - l]
             /\ i + (n + 1) <= l => u[i] = q[i + (n + 1)]
             /\ i + (n + 1) > l => u[i] = q[i + (n + 1) - l]
  <2>1. n \in Int /\ n + 1 \in Int /\ l \in Nat
    BY <1>1
  <2>2. (i + n <= l => t[i] = q[i + n]) /\ (i + n > l => t[i] = q[i + n - l])
    BY <2>1, TurnedAt
  <2>3. /\ i + (n + 1) <= l => u[i] = q[i + (n + 1)]
        /\ i + (n + 1) > l => u[i] = q[i + (n + 1) - l]
    BY <2>1, TurnedAt
  <2> QED
    BY <2>2, <2>3
<1>4. t # <<>>
  BY <1>1, <1>2, EmptySeq
<1> HIDE DEF t, u
<1>5. /\ Tail(t) \in Seq(S) /\ Len(Tail(t)) = l - 1
      /\ \A j \in 1 .. l - 1 : Tail(t)[j] = t[j + 1]
      /\ Head(t) = t[1] /\ Head(t) \in S
  BY <1>2, <1>4, TailElements
<1> HIDE DEF l
<1>6. Head(t) = q[n + 1]
  <2>1. 1 \in 1 .. l
    BY <1>1
  <2>2. t[1] = q[1 + n]
    BY <1>1, <1>3, <2>1
  <2> QED
    BY <1>1, <1>5, <2>2
<1>7. /\ v \in Seq(S) /\ Len(v) = (l - 1) + 1 /\ v[(l - 1) + 1] = Head(t)
      /\ \A j \in 1 .. l - 1 : v[j] = Tail(t)[j]
  BY <1>5, AppendElements
<1> HIDE DEF v
<1>8. ASSUME NEW i \in 1 .. l
      PROVE  v[i] = u[i]
  <2>1. CASE i # l
    <3>1. i \in 1 .. l - 1 /\ i + 1 \in 1 .. l /\ (i + 1) + n = i + (n + 1)
      BY <1>1, <2>1, SMT
    <3>2. v[i] = t[i + 1]
      BY <1>5, <1>7, <3>1
    <3>3. CASE (i + 1) + n <= l
      BY <1>3, <3>1, <3>2, <3>3
    <3>4. CASE (i + 1) + n > l
      <4>1. t[i + 1] = q[(i + 1) + n - l] /\ u[i] = q[i + (n + 1) - l]
        BY <1>3, <3>1, <3>4
      <4>2. (i + 1) + n - l = i + (n + 1) - l
        BY <1>1, SMT
      <4> QED
        BY <3>2, <4>1, <4>2
    <3> QED
      BY <1>1, <3>3, <3>4, SMT
  <2>2. CASE i = l
    <3>1. (l - 1) + 1 = l /\ l \in 1 .. l
      BY <1>1, SMT
    <3>2. v[l] = Head(t)
      BY <1>7, <3>1, Zenon
    <3>4. l + (n + 1) > l /\ l + (n + 1) - l = n + 1
      BY <1>1, SMT
    <3>5. u[l] = q[n + 1]
      BY <1>3, <3>1, <3>4
    <3> QED
      BY <1>6, <2>2, <3>2, <3>5
  <2> QED
    BY <2>1, <2>2
<1>9. v = u
  <2>1. Len(v) = l
    BY <1>1, <1>7, SMT
  <2> QED
    BY <1>2, <1>7, <1>8, <2>1, SeqEqual
<1> QED
  BY <1>4, <1>6, <1>9 DEF t, u, v

-----------------------------------------------------------------------------
(* A buffer at a clock edge with the strobes of a command.                 *)

\* read_data shows the oldest word.
Fresh(b) == b.read_data = b.mem[b.rd_ptr]

\* The strobes find a word to read and a place to write to.
CanAct(q, clear, write_en, read_en) ==
  /\ write_en /\ ~clear => Len(q) < DEPTH
  /\ read_en => Len(q) > 0

\* What strobes make of a queue.
After(q, clear, write_en, write_data, read_en) ==
  IF clear THEN <<>>
  ELSE IF write_en THEN Append(IF read_en THEN Tail(q) ELSE q, write_data)
  ELSE IF read_en THEN Tail(q) ELSE q

\* What an edge of the clock makes of the queue that a buffer is.
LEMMA BufferStep ==
  ASSUME Zero \in Words, NEW b, Valid(b), NEW clear \in BOOLEAN, NEW w \in BOOLEAN, NEW d \in Words,
         NEW r \in BOOLEAN
  PROVE  /\ Valid(BufferEdge(b, clear, w, d, r))
         /\ CanAct(Contents(b), clear, w, r) =>
              Contents(BufferEdge(b, clear, w, d, r)) = After(Contents(b), clear, w, d, r)
<1>1. CASE clear
  <2>1. Cleared(b, Zero) = [b EXCEPT !.rd_ptr = 0, !.wr_ptr = 0, !.cnt = 0, !.read_data = Zero]
    BY DEF Cleared
  <2> DEFINE c == Cleared(b, Zero)
  <2>2. b \in Buffers
    BY DEF Valid
  <2>0. 0 \in Places /\ 0 \in 0 .. DEPTH
    BY DepthAssumption, SMT DEF Places
  <2>3. c.rd_ptr = 0 /\ c.wr_ptr = 0 /\ c.cnt = 0 /\ c \in Buffers
    BY <2>0, <2>1, <2>2 DEF Buffers
  <2> HIDE DEF c
  <2>4. Valid(c)
    BY <2>3, DepthAssumption, SMT DEF Valid, Consistent
  <2>5. Contents(c) = <<>>
    BY <2>3, <2>4, ContentsType, EmptySeq
  <2> QED
    BY <1>1, <2>4, <2>5 DEF BufferEdge, After, c
<1>2. CASE ~clear
  <2>1. Valid(FifoEdge(b, w, d, r))
    BY EdgeIsQueueStep
  <2>2. Contents(FifoEdge(b, w, d, r)) =
          IF w /\ b.cnt # DEPTH THEN Append(Left(b, r /\ b.cnt # 0), d) ELSE Left(b, r /\ b.cnt # 0)
    BY EdgeIsQueueStep
  <2>3. Len(Contents(b)) = b.cnt /\ b.cnt \in Nat
    BY ContentsType, DepthAssumption, SMT DEF Valid, Buffers
  <2>4. CanAct(Contents(b), clear, w, r) => (w => b.cnt # DEPTH) /\ (r => b.cnt # 0)
    BY <1>2, <2>3, DepthAssumption, SMT DEF CanAct
  <2> QED
    BY <1>2, <2>1, <2>2, <2>4 DEF BufferEdge, After, Left
<1> QED
  BY <1>1, <1>2

\* An edge without strobes loads read_data with the oldest word.
LEMMA QuietStep ==
  ASSUME NEW b, NEW clear, NEW w, NEW d, NEW r, ~clear, ~w, ~r
  PROVE  Fresh(BufferEdge(b, clear, w, d, r))
  BY DEF Fresh, BufferEdge, FifoEdge, do_write, do_read

\* read_data shows the oldest word, once it is fresh.
LEMMA FreshIsHead ==
  ASSUME NEW b, Valid(b), Fresh(b), Contents(b) # <<>>
  PROVE  b.read_data = Head(Contents(b))
<1>1. Contents(b) \in Seq(Words) /\ Len(Contents(b)) = b.cnt
  BY ContentsType
<1>2. b.cnt \in Nat \ {0}
  BY <1>1, EmptySeq
<1>3. Contents(b)[1] = b.mem[Place(b, 1)]
  BY <1>2, SMT DEF Contents
<1>4. Place(b, 1) = b.rd_ptr
  BY DepthAssumption, SMT DEF Place, Places, Valid, Buffers
<1>5. Head(Contents(b)) = Contents(b)[1]
  BY <1>1, SMT
<1> QED
  BY <1>3, <1>4, <1>5 DEF Fresh

-----------------------------------------------------------------------------
(* The inductive invariant.                                                *)

\* The queues, when the strobes of this cycle have acted.
In == Contents(next_inputs)
Bank(b) == Contents(next_banks[b])

-----------------------------------------------------------------------------
(* The driver's place in its loops.                                        *)

Configuring == {"mac_offset", "offset", "clamp"}
Filling == {"clear_filter", "filter", "next_set"}
Accumulating == {"clear_acc", "mac", "bias", "mul", "get", "store"}

Steps == Configuring \cup Filling \cup {"clear_input", "input", "rewind", "done"} \cup Accumulating

\* The output channels of the group that come before the present one.
before == drv.ch - drv.group

\* The channels of a group, and the bank of the present one.
group_size == group_end - drv.group + 1
bank == before % FILTER_BANKS

DriverOK ==
  /\ design \in {"banked", "streamed"}
  /\ layers \in Programs
  /\ \A l \in DOMAIN layers :
       Fits(layers[l]) /\ (design = "streamed" => layers[l].group >= layers[l].channels)
  /\ drv \in [pc : Steps, layer : DOMAIN layers, group : 1 .. layer.channels,
              ch : 1 .. layer.channels, pixel : 1 .. last_pixel, k : 1 .. layer.words]
  /\ drv.ch \in drv.group .. group_end
  /\ drv.pc \notin {"filter", "input", "mac"} => drv.k = 1
  /\ drv.pc \in Configuring \cup {"clear_filter", "input", "rewind"} => drv.ch = drv.group
  /\ design = "streamed" => drv.group = 1 /\ drv.pc \notin Filling \cup {"rewind"}
  /\ since \in 0 .. MIN_GAP

-----------------------------------------------------------------------------
(* The circuit.                                                            *)

Strobes ==
  [in_clear : BOOLEAN, in_write : BOOLEAN, in_read : BOOLEAN, filter_clear : BOOLEAN,
   filter_write : SUBSET Banks, filter_read : SUBSET Banks, qnt_start : BOOLEAN]

RegisterValues ==
  [acc : Seq(Words \X Params \X Words), in_word : Words, filter_word : Words,
   wr_idx : Banks, rd_idx : Banks, par : [DOMAIN NewPar -> Params]]

CircuitOK ==
  /\ Valid(inputs)
  /\ \A b \in Banks : Valid(banks[b])
  /\ banks = [b \in Banks |-> banks[b]]
  /\ flags \in Strobes /\ regs \in RegisterValues
  /\ offset_applied \in Params
  /\ rsp.valid \in BOOLEAN /\ rsp.pending \in BOOLEAN
  /\ DOMAIN rsp = {"valid", "pending", "out"}
  /\ NothingDropped

\* The strobes have acted before the next command can be accepted, and read_data
\* shows the next word before the next MAC_ON_BUFFER.
TimingOK ==
  /\ cmd_ready => flags = NoFlags
  /\ At("mac") /\ since >= 2 => flags = NoFlags
  /\ At("mac") /\ since >= 3 => Fresh(inputs) /\ \A b \in Banks : Fresh(banks[b])
  /\ At("mac") => ~flags.in_clear /\ offset_applied = regs.par["mac_offset"]

\* A quantization under way has what the registers hold.
QuantizerOK ==
  /\ rsp.pending => At("store") /\ ~rsp.valid
  /\ At("store") => rsp.valid \/ rsp.pending
  /\ At("store") /\ rsp.valid => rsp.out = <<regs.acc, regs.par>>
  /\ quant.stage \in BOOLEAN /\ quant.status \in BOOLEAN
  /\ ~rsp.pending => ~flags.qnt_start /\ ~quant.stage /\ ~quant.status
  /\ rsp.pending =>
       \/ flags.qnt_start /\ ~quant.stage /\ ~quant.status
       \/ ~flags.qnt_start /\ quant.stage /\ ~quant.status /\ quant.ab = <<regs.acc, regs.par>>
       \/ ~flags.qnt_start /\ ~quant.stage /\ quant.status /\ quant.scaled = <<regs.acc, regs.par>>

-----------------------------------------------------------------------------
(* What the queues and registers hold.                                     *)

\* The first n words that a bank gets for a group.
FilterWords(b, n) ==
  [i \in 1 .. n |->
     FilterWord(drv.layer, drv.group + b + FILTER_BANKS * ((i - 1) \div layer.words),
                ((i - 1) % layer.words) + 1)]

PixelWords(n) == [k \in 1 .. n |-> InputWord(drv.layer, drv.pixel, k)]

\* The words of the present channel that were stored or used.
words_done ==
  IF drv.pc \in {"next_set", "bias", "mul", "get", "store"} THEN layer.words ELSE drv.k - 1

\* The same for a bank, with those of the channels before.
bank_done(b) == Share(b, before) * layer.words + (IF b = bank THEN words_done ELSE 0)

bank_size(b) == Share(b, group_size) * layer.words

QueuesOK ==
  /\ At("input") => In = PixelWords(drv.k - 1)
  /\ At("rewind") => In = PixelWords(layer.words)
  /\ drv.pc \in Accumulating => In = Turned(PixelWords(layer.words), words_done)
  /\ design = "banked" =>
       \A b \in Banks :
         /\ drv.pc \in {"filter", "next_set"} => Bank(b) = FilterWords(b, bank_done(b))
         /\ drv.pc \in {"clear_input", "input", "rewind"} => Bank(b) = FilterWords(b, bank_size(b))
         /\ drv.pc \in Accumulating => Bank(b) = Turned(FilterWords(b, bank_size(b)), bank_done(b))

\* The products of the first n words of the present output.
Products(n) ==
  [k \in 1 .. n |->
     <<InputWord(drv.layer, drv.pixel, k), drv.layer, FilterWord(drv.layer, drv.ch, k)>>]

RegistersOK ==
  /\ drv.pc \in Accumulating \ {"clear_acc"} => regs.acc = Products(words_done)
  /\ drv.pc \in Steps \ {"mac_offset", "done"} => regs.par["mac_offset"] = drv.layer
  /\ drv.pc \in Steps \ {"mac_offset", "offset", "done"} => regs.par["offset"] = drv.layer
  /\ drv.pc \in Steps \ (Configuring \cup {"done"}) => regs.par["clamp"] = drv.layer
  /\ drv.pc \in {"mul", "get", "store"} => regs.par["bias"] = drv.ch
  /\ drv.pc \in {"get", "store"} => regs.par["mul"] = drv.ch /\ regs.par["shift"] = drv.ch
  /\ design = "banked" =>
       /\ drv.pc \in {"filter", "next_set"} => regs.wr_idx = bank
       /\ drv.pc \in Accumulating =>
            regs.rd_idx = IF At("store") /\ rsp.valid THEN (bank + 1) % FILTER_BANKS ELSE bank

GInv ==
  DriverOK /\ CircuitOK /\ TimingOK /\ QuantizerOK /\ QueuesOK /\ RegistersOK /\ OutputsRight

-----------------------------------------------------------------------------
\* The layer's numbers.
LEMMA ShapeFacts ==
  ASSUME DriverOK
  PROVE  /\ layers \in Seq(Shapes) /\ drv.layer \in 1 .. Len(layers) /\ layer \in Shapes
         /\ Len(layers) \in Nat
         /\ layer.channels \in Nat \ {0} /\ layer.words \in Nat \ {0} /\ layer.group \in Nat \ {0}
         /\ Fits(layer)
         /\ design = "streamed" => layer.group >= layer.channels
         /\ last_pixel \in 1 .. PIXELS
         /\ layer.words < DEPTH
<1>1. layers \in Seq(Shapes) /\ drv.layer \in DOMAIN layers /\ DOMAIN layers = 1 .. Len(layers)
  BY BoundsAssumption DEF DriverOK
<1>2. layer \in Shapes
  BY <1>1, ElementOfSeq DEF layer
<1>3. layer.channels \in Nat \ {0} /\ layer.words \in Nat \ {0} /\ layer.group \in Nat \ {0}
  BY <1>2, ShapesAssumption
<1>4. Fits(layer) /\ (design = "streamed" => layer.group >= layer.channels)
  BY <1>1 DEF DriverOK, layer
<1>5. last_pixel \in 1 .. PIXELS
  BY BoundsAssumption, SMT DEF last_pixel
<1>6. layer.words < DEPTH
  <2>1. 0 \in Banks /\ 0 \in Nat /\ 0 <= Minimum(layer.channels, layer.group)
    BY <1>3, BanksAssumption, SMT DEF Banks, Minimum
  <2> QED
    BY <1>3, <1>4, <2>1, ShareFits
<1>7. Len(layers) \in Nat
  BY <1>1, LenProperties
<1> QED
  BY <1>1, <1>2, <1>3, <1>4, <1>5, <1>6, <1>7

\* The group's and the driver's place in it.
LEMMA GroupFacts ==
  ASSUME DriverOK
  PROVE  /\ drv.group \in Nat \ {0} /\ drv.group <= layer.channels
         /\ drv.ch \in Nat \ {0} /\ drv.group <= drv.ch /\ drv.ch <= group_end
         /\ group_end \in Nat \ {0} /\ group_end <= layer.channels
         /\ before \in Nat /\ group_size \in Nat \ {0} /\ before < group_size
         /\ group_size <= Minimum(layer.channels, layer.group)
         /\ before + 1 = drv.ch + 1 - drv.group
         /\ drv.pixel \in Nat \ {0} /\ drv.pixel <= last_pixel /\ drv.k \in Nat \ {0}
         /\ drv.k <= layer.words
         /\ drv.ch = group_end => before + 1 = group_size
         /\ design = "streamed" => group_end = layer.channels
<1> DEFINE c == layer.channels
           s == layer.group
           g == drv.group
           ch == drv.ch
           e == group_end
<1>1. c \in Nat \ {0} /\ s \in Nat \ {0} /\ layer.words \in Nat \ {0} /\ last_pixel \in Nat
  BY ShapeFacts
<1>2. g \in 1 .. c /\ ch \in g .. e /\ drv.pixel \in 1 .. last_pixel /\ drv.k \in 1 .. layer.words
  BY DEF DriverOK
<1>3. e = IF g + s - 1 < c THEN g + s - 1 ELSE c
  BY DEF group_end, Minimum
<1>4. before = ch - g /\ group_size = e - g + 1
        /\ Minimum(c, s) = IF c < s THEN c ELSE s
  BY DEF before, group_size, Minimum
<1>5. design = "streamed" => g = 1 /\ s >= c
  BY ShapeFacts DEF DriverOK
<1> HIDE DEF c, s, g, ch, e
<1>6. /\ g \in Nat \ {0} /\ g <= c /\ ch \in Nat \ {0} /\ g <= ch /\ ch <= e /\ e \in Nat \ {0}
      /\ e <= c /\ (design = "streamed" => e = c)
      /\ ch - g \in Nat /\ e - g + 1 \in Nat \ {0} /\ ch - g < e - g + 1
      /\ e - g + 1 <= Minimum(c, s)
      /\ (ch - g) + 1 = ch + 1 - g /\ (ch = e => (ch - g) + 1 = e - g + 1)
  BY <1>1, <1>2, <1>3, <1>4, <1>5, SMT
<1>7. /\ drv.pixel \in Nat \ {0} /\ drv.pixel <= last_pixel
      /\ drv.k \in Nat \ {0} /\ drv.k <= layer.words
  BY <1>1, <1>2, SMT
<1> QED
  BY <1>4, <1>6, <1>7 DEF c, s, g, ch, e

\* Where the driver may go on in its layer.
GoesTo(pc, group, ch, pixel, k) ==
  /\ drv' = [pc |-> pc, layer |-> drv.layer, group |-> group, ch |-> ch, pixel |-> pixel, k |-> k]
  /\ pc \in Steps
  /\ group \in 1 .. layer.channels
  /\ ch \in group .. Minimum(group + layer.group - 1, layer.channels)
  /\ pixel \in 1 .. last_pixel
  /\ k \in 1 .. layer.words
  /\ pc \notin {"filter", "input", "mac"} => k = 1
  /\ pc \in Configuring \cup {"clear_filter", "input", "rewind"} => ch = group
  /\ design = "streamed" => group = 1 /\ pc \notin Filling \cup {"rewind"}

\* To go on to such a place keeps the driver in its loops.
LEMMA DriverGoesOn ==
  ASSUME DriverOK, UNCHANGED <<layers, design>>, since' \in 0 .. MIN_GAP,
         NEW pc, NEW group, NEW ch, NEW pixel, NEW k, GoesTo(pc, group, ch, pixel, k)
  PROVE  DriverOK'
<1>1. /\ drv'.pc = pc /\ drv'.layer = drv.layer /\ drv'.group = group /\ drv'.ch = ch
      /\ drv'.pixel = pixel /\ drv'.k = k /\ layers' = layers /\ design' = design
  BY DEF GoesTo
<1>2. layer' = layer /\ last_pixel' = last_pixel
        /\ group_end' = Minimum(group + layer.group - 1, layer.channels)
  BY <1>1 DEF layer, last_pixel, group_end
<1>3. ch \in 1 .. layer.channels
  <2>1. layer.channels \in Nat \ {0} /\ layer.group \in Nat \ {0}
    BY ShapeFacts
  <2>2. /\ group \in 1 .. layer.channels
        /\ ch \in group .. Minimum(group + layer.group - 1, layer.channels)
    BY DEF GoesTo
  <2> QED
    BY <2>1, <2>2, SMT DEF Minimum
<1>4. drv' \in [pc : Steps, layer : DOMAIN layers', group : 1 .. layer'.channels,
                ch : 1 .. layer'.channels, pixel : 1 .. last_pixel', k : 1 .. layer'.words]
  <2>1. drv.layer \in DOMAIN layers
    BY DEF DriverOK
  <2>2. /\ drv' = [pc |-> pc, layer |-> drv.layer, group |-> group, ch |-> ch, pixel |-> pixel,
                   k |-> k]
        /\ pc \in Steps /\ group \in 1 .. layer.channels /\ pixel \in 1 .. last_pixel
        /\ k \in 1 .. layer.words
    BY DEF GoesTo
  <2> QED
    BY <1>1, <1>2, <1>3, <2>1, <2>2
<1>5. /\ drv'.ch \in drv'.group .. group_end'
      /\ drv'.pc \notin {"filter", "input", "mac"} => drv'.k = 1
      /\ drv'.pc \in Configuring \cup {"clear_filter", "input", "rewind"} => drv'.ch = drv'.group
      /\ design' = "streamed" => drv'.group = 1 /\ drv'.pc \notin Filling \cup {"rewind"}
  BY <1>1, <1>2 DEF GoesTo
<1>6. /\ design' \in {"banked", "streamed"} /\ layers' \in Programs
      /\ \A l \in DOMAIN layers' :
           Fits(layers'[l]) /\ (design' = "streamed" => layers'[l].group >= layers'[l].channels)
  BY <1>1 DEF DriverOK
<1> QED
  BY <1>4, <1>5, <1>6 DEF DriverOK

\* A driver that waits stays where it is.
LEMMA DriverStays ==
  ASSUME DriverOK, UNCHANGED <<layers, design, drv>>, since' \in 0 .. MIN_GAP
  PROVE  DriverOK'
<1>1. layers' = layers /\ design' = design /\ drv' = drv
  OBVIOUS
<1>2. layer' = layer /\ last_pixel' = last_pixel /\ group_end' = group_end
  BY <1>1 DEF layer, last_pixel, group_end
<1> QED
  BY <1>1, <1>2 DEF DriverOK

\* The time since the last MAC_ON_BUFFER keeps its type.
LEMMA AgedType ==
  ASSUME DriverOK
  PROVE  Aged \in 0 .. MIN_GAP /\ 1 \in 0 .. MIN_GAP
<1>1. since \in 0 .. MIN_GAP
  BY DEF DriverOK
<1> QED
  BY <1>1, BoundsAssumption, GapAssumption, SMT DEF Aged

\* The driver's counters.
LEMMA DriverFields ==
  ASSUME DriverOK
  PROVE  /\ drv = [pc |-> drv.pc, layer |-> drv.layer, group |-> drv.group, ch |-> drv.ch,
                   pixel |-> drv.pixel, k |-> drv.k]
         /\ drv.pc \in Steps
         /\ drv.group \in 1 .. layer.channels
         /\ drv.ch \in drv.group .. Minimum(drv.group + layer.group - 1, layer.channels)
         /\ drv.pixel \in 1 .. last_pixel
         /\ drv.k \in 1 .. layer.words
         /\ drv.group \in drv.group .. Minimum(drv.group + layer.group - 1, layer.channels)
         /\ 1 \in 1 .. layer.words /\ 1 \in 1 .. last_pixel
         /\ drv.pc \notin {"filter", "input", "mac"} => drv.k = 1
         /\ drv.pc \in Configuring \cup {"clear_filter", "input", "rewind"} => drv.ch = drv.group
         /\ design = "streamed" => drv.group = 1 /\ drv.pc \notin Filling \cup {"rewind"}
<1>1. /\ drv.pc \in Steps
      /\ drv.group \in 1 .. layer.channels
      /\ drv.ch \in drv.group .. group_end
      /\ drv.pixel \in 1 .. last_pixel
      /\ drv.k \in 1 .. layer.words
      /\ drv.pc \notin {"filter", "input", "mac"} => drv.k = 1
      /\ drv.pc \in Configuring \cup {"clear_filter", "input", "rewind"} => drv.ch = drv.group
      /\ design = "streamed" => drv.group = 1 /\ drv.pc \notin Filling \cup {"rewind"}
      /\ drv = [pc |-> drv.pc, layer |-> drv.layer, group |-> drv.group, ch |-> drv.ch,
                pixel |-> drv.pixel, k |-> drv.k]
  BY DEF DriverOK
<1>2. drv.group <= group_end /\ drv.group \in Nat /\ group_end \in Nat
  BY GroupFacts, SMT
<1>3. 1 \in 1 .. layer.words /\ 1 \in 1 .. last_pixel
  BY ShapeFacts, SMT
<1> QED
  BY <1>1, <1>2, <1>3 DEF group_end

\* The driver goes on to the next step with the same output.
LEMMA Advances ==
  ASSUME DriverOK, NEW pc \in Steps, drv' = [drv EXCEPT !.pc = pc, !.k = 1],
         pc \in Configuring \cup {"clear_filter", "input", "rewind"} => drv.ch = drv.group,
         design = "streamed" => pc \notin Filling \cup {"rewind"}
  PROVE  GoesTo(pc, drv.group, drv.ch, drv.pixel, 1)
<1>1. drv' = [pc |-> pc, layer |-> drv.layer, group |-> drv.group, ch |-> drv.ch,
              pixel |-> drv.pixel, k |-> 1]
  BY DriverFields
<1> QED
  BY <1>1, DriverFields DEF GoesTo

\* The next word, or the next step after the last.
LEMMA NextWordGoes ==
  ASSUME DriverOK, drv.pc \in {"filter", "input", "mac"}, NEW pc \in Steps, drv' = NextWord(pc),
         pc \in Configuring \cup {"clear_filter", "input", "rewind"} => drv.ch = drv.group,
         design = "streamed" => pc \notin Filling \cup {"rewind"}
  PROVE  \/ drv.k < layer.words /\ GoesTo(drv.pc, drv.group, drv.ch, drv.pixel, drv.k + 1)
         \/ drv.k = layer.words /\ GoesTo(pc, drv.group, drv.ch, drv.pixel, 1)
<1>1. CASE drv.k < layer.words
  <2>1. drv' = [drv EXCEPT !.k = drv.k + 1]
    BY <1>1 DEF NextWord
  <2>2. drv' = [pc |-> drv.pc, layer |-> drv.layer, group |-> drv.group, ch |-> drv.ch,
                pixel |-> drv.pixel, k |-> drv.k + 1]
    BY <2>1, DriverFields
  <2>3. drv.k + 1 \in 1 .. layer.words
    BY <1>1, DriverFields, ShapeFacts, SMT
  <2> QED
    BY <1>1, <2>2, <2>3, DriverFields DEF GoesTo
<1>2. CASE ~(drv.k < layer.words)
  <2>1. drv.k = layer.words
    BY <1>2, DriverFields, ShapeFacts, SMT
  <2>2. drv' = [drv EXCEPT !.pc = pc, !.k = 1]
    BY <1>2 DEF NextWord
  <2> QED
    BY <2>1, <2>2, Advances
<1> QED
  BY <1>1, <1>2

-----------------------------------------------------------------------------
(* One edge of the clock, with the strobes of the command before.          *)

ResponseOK(r) ==
  /\ r.valid \in BOOLEAN /\ r.pending \in BOOLEAN
  /\ DOMAIN r = {"valid", "pending", "out"}

\* The strobes, one by one.
LEMMA StrobeFields ==
  ASSUME NEW f \in Strobes
  PROVE  /\ f.in_clear \in BOOLEAN /\ f.in_write \in BOOLEAN /\ f.in_read \in BOOLEAN
         /\ f.filter_clear \in BOOLEAN /\ f.filter_write \in SUBSET Banks
         /\ f.filter_read \in SUBSET Banks /\ f.qnt_start \in BOOLEAN
  BY DEF Strobes

\* Behind the strobes of this cycle the buffers are buffers.
LEMMA BuffersValid ==
  ASSUME CircuitOK
  PROVE  /\ Valid(next_inputs)
         /\ next_banks = [b \in Banks |-> next_banks[b]]
         /\ \A b \in Banks : Valid(next_banks[b])
         /\ In \in Seq(Words) /\ Len(In) = next_inputs.cnt
         /\ \A b \in Banks : Bank(b) \in Seq(Words) /\ Len(Bank(b)) = next_banks[b].cnt
         /\ flags = NoFlags => Fresh(next_inputs) /\ \A b \in Banks : Fresh(next_banks[b])
<1>1. Zero \in Words
  BY DataAssumption
<1>2. flags \in Strobes /\ regs.in_word \in Words /\ regs.filter_word \in Words
  BY DEF CircuitOK, RegisterValues
<1>3. flags.in_clear \in BOOLEAN /\ flags.in_write \in BOOLEAN /\ flags.in_read \in BOOLEAN
        /\ flags.filter_clear \in BOOLEAN
  BY <1>2, StrobeFields
<1>4. Valid(next_inputs)
  BY <1>1, <1>2, <1>3, BufferStep DEF CircuitOK, next_inputs
<1>5. \A b \in Banks :
        next_banks[b] = BufferEdge(banks[b], flags.filter_clear, b \in flags.filter_write,
                                   regs.filter_word, b \in flags.filter_read)
  BY DEF next_banks
<1>6. \A b \in Banks : Valid(next_banks[b])
  <2> TAKE b \in Banks
  <2>1. Valid(banks[b]) /\ (b \in flags.filter_write) \in BOOLEAN
          /\ (b \in flags.filter_read) \in BOOLEAN
    BY DEF CircuitOK
  <2>2. Valid(BufferEdge(banks[b], flags.filter_clear, b \in flags.filter_write,
                         regs.filter_word, b \in flags.filter_read))
    BY <1>1, <1>2, <1>3, <2>1, BufferStep
  <2> QED
    BY <1>5, <2>2
<1>7. In \in Seq(Words) /\ Len(In) = next_inputs.cnt
  BY <1>4, ContentsType DEF In
<1>8. \A b \in Banks : Bank(b) \in Seq(Words) /\ Len(Bank(b)) = next_banks[b].cnt
  BY <1>6, ContentsType DEF Bank
<1>9. next_banks = [b \in Banks |-> next_banks[b]]
  BY DEF next_banks
<1>10. flags = NoFlags => Fresh(next_inputs) /\ \A b \in Banks : Fresh(next_banks[b])
  <2>1. SUFFICES ASSUME flags = NoFlags
        PROVE  Fresh(next_inputs) /\ \A b \in Banks : Fresh(next_banks[b])
    OBVIOUS
  <2>2. /\ ~flags.in_clear /\ ~flags.in_write /\ ~flags.in_read /\ ~flags.filter_clear
        /\ flags.filter_write = {} /\ flags.filter_read = {}
    BY <2>1 DEF NoFlags
  <2>3. Fresh(next_inputs)
    BY <2>2, QuietStep DEF next_inputs
  <2>4. ASSUME NEW b \in Banks
        PROVE  Fresh(next_banks[b])
    <3>1. ~(b \in flags.filter_write) /\ ~(b \in flags.filter_read)
      BY <2>2
    <3>2. Fresh(BufferEdge(banks[b], flags.filter_clear, b \in flags.filter_write,
                           regs.filter_word, b \in flags.filter_read))
      BY <2>2, <3>1, QuietStep
    <3> QED
      BY <1>5, <3>2
  <2> QED
    BY <2>3, <2>4
<1> QED
  BY <1>4, <1>6, <1>7, <1>8, <1>9, <1>10

\* What a command's strobes ask of the queues.
StrobesFit(f) ==
  /\ CanAct(In, f.in_clear, f.in_write, f.in_read)
  /\ \A b \in Banks : CanAct(Bank(b), FALSE, b \in f.filter_write, b \in f.filter_read)

\* A clock edge, with the strobes that are high in the cycle that follows.
LEMMA EdgeStep ==
  ASSUME CircuitOK, NEW r, NEW f \in Strobes, NEW g \in RegisterValues, Edge(r, f, g),
         ResponseOK(r), StrobesFit(f)
  PROVE  /\ CircuitOK'
         /\ In' = After(In, f.in_clear, f.in_write, g.in_word, f.in_read)
         /\ \A b \in Banks :
              Bank(b)' = After(Bank(b), f.filter_clear, b \in f.filter_write, g.filter_word,
                               b \in f.filter_read)
         /\ rsp' = r /\ flags' = f /\ regs' = g /\ design' = design /\ quant' = next_quant
         /\ offset_applied' = IF flags.in_clear THEN Zero ELSE regs.par["mac_offset"]
         /\ flags = NoFlags => Fresh(inputs') /\ \A b \in Banks : Fresh(banks'[b])
<1>1. /\ rsp' = r /\ flags' = f /\ regs' = g /\ design' = design /\ quant' = next_quant
      /\ inputs' = next_inputs /\ banks' = next_banks
      /\ offset_applied' = IF flags.in_clear THEN Zero ELSE regs.par["mac_offset"]
  BY DEF Edge, Datapath
<1>2. Zero \in Words /\ Zero \in Params
  BY DataAssumption
<1>3. g.in_word \in Words /\ g.filter_word \in Words
  BY DEF RegisterValues
<1>4. f.in_clear \in BOOLEAN /\ f.in_write \in BOOLEAN /\ f.in_read \in BOOLEAN
        /\ f.filter_clear \in BOOLEAN
  BY StrobeFields
<1>5. In' = After(In, f.in_clear, f.in_write, g.in_word, f.in_read)
  <2>1. In' = Contents(BufferEdge(next_inputs, f.in_clear, f.in_write, g.in_word, f.in_read))
    BY <1>1 DEF In, next_inputs
  <2>2. In = Contents(next_inputs)
    BY DEF In
  <2>3. CanAct(Contents(next_inputs), f.in_clear, f.in_write, f.in_read)
    BY <2>2 DEF StrobesFit
  <2> QED
    BY <1>2, <1>3, <1>4, <2>1, <2>2, <2>3, BuffersValid, BufferStep
<1>6. ASSUME NEW b \in Banks
      PROVE  Bank(b)' = After(Bank(b), f.filter_clear, b \in f.filter_write, g.filter_word,
                              b \in f.filter_read)
  <2>1. Bank(b)' = Contents(BufferEdge(next_banks[b], f.filter_clear, b \in f.filter_write,
                                       g.filter_word, b \in f.filter_read))
    BY <1>1 DEF Bank, next_banks
  <2>2. Bank(b) = Contents(next_banks[b]) /\ Valid(next_banks[b])
    BY BuffersValid DEF Bank
  <2>3. ASSUME NEW w \in BOOLEAN, NEW t \in BOOLEAN, CanAct(Bank(b), FALSE, w, t)
        PROVE  Contents(BufferEdge(next_banks[b], f.filter_clear, w, g.filter_word, t)) =
                 After(Bank(b), f.filter_clear, w, g.filter_word, t)
    <3>1. CanAct(Contents(next_banks[b]), f.filter_clear, w, t)
      BY <2>2, <2>3 DEF CanAct
    <3> DEFINE c == next_banks[b]
               e == f.filter_clear
               d == g.filter_word
    <3>2. Valid(c) /\ CanAct(Contents(c), e, w, t) /\ d \in Words /\ e \in BOOLEAN
      BY <1>3, <1>4, <2>2, <3>1
    <3> HIDE DEF c, e, d
    <3>3. Contents(BufferEdge(c, e, w, d, t)) = After(Contents(c), e, w, d, t)
      BY <1>2, <3>2, BufferStep
    <3> QED
      BY <2>2, <3>3 DEF c, d, e
  <2>4. CanAct(Bank(b), FALSE, b \in f.filter_write, b \in f.filter_read)
    BY DEF StrobesFit
  <2>5. (b \in f.filter_write) \in BOOLEAN /\ (b \in f.filter_read) \in BOOLEAN
    OBVIOUS
  <2> QED
    BY <2>1, <2>3, <2>4, <2>5
<1>7. NothingDropped'
  <2>1. inputs'.cnt = Len(In) /\ \A b \in Banks : banks'[b].cnt = Len(Bank(b))
    BY <1>1, BuffersValid
  <2>2. /\ f.in_write /\ ~f.in_clear => Len(In) < DEPTH
        /\ f.in_read => Len(In) > 0
        /\ \A b \in Banks : /\ b \in f.filter_write => Len(Bank(b)) < DEPTH
                            /\ b \in f.filter_read => Len(Bank(b)) > 0
    BY DEF StrobesFit, CanAct
  <2>3. f.filter_write \subseteq Banks /\ f.filter_read \subseteq Banks
    BY StrobeFields
  <2> QED
    BY <1>1, <2>1, <2>2, <2>3 DEF NothingDropped
<1>8. offset_applied' \in Params
  <2>1. regs.par \in [DOMAIN NewPar -> Params]
    BY DEF CircuitOK, RegisterValues
  <2>2. "mac_offset" \in DOMAIN NewPar
    BY DEF NewPar
  <2> QED
    BY <1>1, <1>2, <2>1, <2>2
<1>9. CircuitOK'
  <2>1. /\ Valid(inputs') /\ \A b \in Banks : Valid(banks'[b])
        /\ banks' = [b \in Banks |-> banks'[b]]
    BY <1>1, BuffersValid
  <2>2. ResponseOK(rsp')
    BY <1>1
  <2> QED
    BY <1>1, <1>7, <1>8, <2>1, <2>2 DEF CircuitOK, ResponseOK
<1> QED
  BY <1>1, <1>5, <1>6, <1>9, BuffersValid

\* No strobe is high.
LEMMA NoFlagsFields ==
  /\ NoFlags \in Strobes
  /\ ~NoFlags.in_clear /\ ~NoFlags.in_write /\ ~NoFlags.in_read /\ ~NoFlags.filter_clear
  /\ NoFlags.filter_write = {} /\ NoFlags.filter_read = {} /\ ~NoFlags.qnt_start
  BY DEF NoFlags, Strobes

\* Strobes that no buffer sees.
Quiet(f) ==
  /\ ~f.in_clear /\ ~f.in_write /\ ~f.in_read /\ ~f.filter_clear
  /\ f.filter_write = {} /\ f.filter_read = {}

\* An edge without such strobes changes no queue.
LEMMA QuietEdge ==
  ASSUME CircuitOK, NEW r, NEW f \in Strobes, NEW g \in RegisterValues, Edge(r, f, g),
         ResponseOK(r), Quiet(f)
  PROVE  /\ CircuitOK' /\ In' = In /\ \A b \in Banks : Bank(b)' = Bank(b)
         /\ rsp' = r /\ flags' = f /\ regs' = g /\ design' = design /\ quant' = next_quant
         /\ offset_applied' = IF flags.in_clear THEN Zero ELSE regs.par["mac_offset"]
         /\ flags = NoFlags => Fresh(inputs') /\ \A b \in Banks : Fresh(banks'[b])
<1>1. StrobesFit(f)
  BY DEF StrobesFit, CanAct, Quiet
<1>2. /\ CircuitOK'
      /\ In' = After(In, f.in_clear, f.in_write, g.in_word, f.in_read)
      /\ \A b \in Banks :
           Bank(b)' = After(Bank(b), f.filter_clear, b \in f.filter_write, g.filter_word,
                            b \in f.filter_read)
      /\ rsp' = r /\ flags' = f /\ regs' = g /\ design' = design /\ quant' = next_quant
      /\ offset_applied' = IF flags.in_clear THEN Zero ELSE regs.par["mac_offset"]
      /\ flags = NoFlags => Fresh(inputs') /\ \A b \in Banks : Fresh(banks'[b])
  BY <1>1, EdgeStep
<1>3. After(In, f.in_clear, f.in_write, g.in_word, f.in_read) = In
  BY DEF Quiet, After
<1>4. ASSUME NEW b \in Banks
      PROVE  After(Bank(b), f.filter_clear, b \in f.filter_write, g.filter_word,
                   b \in f.filter_read) = Bank(b)
  BY DEF Quiet, After
<1> QED
  BY <1>2, <1>3, <1>4

\* The response registers, when one of them is set.
LEMMA ResponseFields ==
  ASSUME NEW x, ResponseOK(x), NEW o
  PROVE  /\ LET r == [x EXCEPT !.valid = TRUE, !.out = o]
            IN  ResponseOK(r) /\ r.valid /\ (r.pending <=> x.pending) /\ r.out = o
         /\ LET r == [x EXCEPT !.pending = TRUE, !.out = o]
            IN  ResponseOK(r) /\ (r.valid <=> x.valid) /\ r.pending /\ r.out = o
         /\ LET r == [x EXCEPT !.valid = FALSE]
            IN  ResponseOK(r) /\ ~r.valid /\ (r.pending <=> x.pending) /\ r.out = x.out
  BY DEF ResponseOK

\* What is known of a command that is not GET.
LEMMA AcceptStep ==
  ASSUME CircuitOK, TimingOK, QuantizerOK, NEW f \in Strobes, NEW g \in RegisterValues,
         Accept(f, g), StrobesFit(f), ~f.qnt_start, drv'.pc # "store"
  PROVE  /\ CircuitOK' /\ QuantizerOK'
         /\ In' = After(In, f.in_clear, f.in_write, g.in_word, f.in_read)
         /\ \A b \in Banks :
              Bank(b)' = After(Bank(b), f.filter_clear, b \in f.filter_write, g.filter_word,
                               b \in f.filter_read)
         /\ cmd_ready /\ flags = NoFlags
         /\ flags' = f /\ regs' = g /\ design' = design
         /\ rsp'.valid /\ ~rsp'.pending /\ rsp'.out = <<>>
         /\ offset_applied' = regs.par["mac_offset"]
         /\ Fresh(inputs') /\ \A b \in Banks : Fresh(banks'[b])
<1> DEFINE r == [rsp EXCEPT !.valid = TRUE, !.out = <<>>]
<1>1. cmd_ready /\ Edge(r, f, g)
  BY DEF Accept
<1>2. flags = NoFlags /\ ~rsp.valid /\ ~rsp.pending
  BY <1>1 DEF TimingOK, cmd_ready
<1>3. ResponseOK(rsp)
  BY DEF CircuitOK, ResponseOK
<1>4. ResponseOK(r) /\ r.valid /\ ~r.pending /\ r.out = <<>>
  BY <1>2, <1>3, ResponseFields
<1> HIDE DEF r
<1>5. /\ CircuitOK'
      /\ In' = After(In, f.in_clear, f.in_write, g.in_word, f.in_read)
      /\ \A b \in Banks :
           Bank(b)' = After(Bank(b), f.filter_clear, b \in f.filter_write, g.filter_word,
                            b \in f.filter_read)
      /\ rsp' = r /\ flags' = f /\ regs' = g /\ design' = design /\ quant' = next_quant
      /\ offset_applied' = IF flags.in_clear THEN Zero ELSE regs.par["mac_offset"]
      /\ flags = NoFlags => Fresh(inputs') /\ \A b \in Banks : Fresh(banks'[b])
  BY <1>1, <1>4, EdgeStep
<1>6. rsp'.valid /\ ~rsp'.pending /\ rsp'.out = <<>>
  BY <1>4, <1>5
<1>7. offset_applied' = regs.par["mac_offset"]
  BY <1>2, <1>5, NoFlagsFields
<1>8. ~quant.stage /\ ~quant.status /\ ~flags.qnt_start
  BY <1>2 DEF QuantizerOK
<1>9. quant'.stage = FALSE /\ quant'.status = FALSE
  <2>1. quant.stage \in BOOLEAN
    BY DEF QuantizerOK
  <2> QED
    BY <1>5, <1>8, <2>1 DEF next_quant
<1>10. QuantizerOK'
  BY <1>5, <1>6, <1>9 DEF QuantizerOK, At
<1> QED
  BY <1>1, <1>2, <1>5, <1>6, <1>7, <1>10

-----------------------------------------------------------------------------
(* What the banks hold, and how much of it is done.                        *)

-----------------------------------------------------------------------------
(* Sizes.                                                                  *)

\* The words that a bank gets fit into it.
LEMMA BankSizes ==
  ASSUME DriverOK, NEW b \in Banks
  PROVE  /\ bank_size(b) \in Nat /\ bank_size(b) < DEPTH
         /\ bank \in Banks
         /\ Share(b, before) \in Nat /\ Share(b, group_size) \in Nat
         /\ bank_size(b) = Share(b, group_size) * layer.words
<1> DEFINE w == layer.words
           s == Share(b, group_size)
<1>1. w \in Nat \ {0} /\ layer.channels \in Nat \ {0} /\ layer.group \in Nat \ {0} /\ Fits(layer)
  BY ShapeFacts
<1>2. before \in Nat /\ group_size \in Nat /\ group_size <= Minimum(layer.channels, layer.group)
  BY GroupFacts
<1>3. s * w < DEPTH
  BY <1>1, <1>2, ShareFits
<1>4. s \in Nat /\ Share(b, before) \in Nat /\ before % FILTER_BANKS \in Banks
  BY <1>2, ShareType
<1>5. bank_size(b) = s * w
  BY DEF bank_size
<1> HIDE DEF s, w
<1>6. s * w \in Nat
  BY <1>1, <1>4, SMT
<1> QED
  BY <1>3, <1>4, <1>5, <1>6 DEF bank, s, w

\* The words of a bank that were stored or used, of those it holds for the group.
LEMMA BankProgress ==
  ASSUME DriverOK, NEW b \in Banks
  PROVE  /\ words_done \in 0 .. layer.words
         /\ bank_done(b) \in 0 .. bank_size(b)
         /\ b = bank /\ words_done < layer.words => bank_done(b) + 1 \in 1 .. bank_size(b)
         /\ words_done = 0 => bank_done(b) = Share(b, before) * layer.words
         /\ words_done = layer.words => bank_done(b) = Share(b, before + 1) * layer.words
<1> DEFINE w == layer.words
           d == words_done
           s == Share(b, before)
           t == Share(b, group_size)
           n == Share(b, before + 1)
<1>1. w \in Nat \ {0} /\ drv.k \in Nat \ {0} /\ drv.k <= w
  BY ShapeFacts, GroupFacts
<1>2. d \in 0 .. w
  <2>1. d = w \/ d = drv.k - 1
    BY DEF words_done
  <2> HIDE DEF d, w
  <2> QED
    BY <1>1, <2>1, SMT
<1>3. before \in Nat /\ group_size \in Nat /\ before < group_size /\ before <= group_size
        /\ before + 1 \in Nat
  BY GroupFacts, SMT
<1>4. s \in Nat /\ t \in Nat /\ s <= t /\ (b = bank => s + 1 <= t)
  BY <1>3, ShareType, ShareMonotonic DEF bank
<1>5. n = s + (IF b = bank THEN 1 ELSE 0)
  BY <1>3, ShareNext DEF bank
<1>6. bank_size(b) = t * w
  BY DEF bank_size
<1>7. bank_done(b) = s * w + (IF b = bank THEN d ELSE 0)
  BY DEF bank_done
<1> HIDE DEF w, d, s, t, n
<1>8. s * w <= t * w /\ s * w \in Nat /\ t * w \in Nat /\ (b = bank => s * w + w <= t * w)
  BY <1>1, <1>4, SMT
<1>9. n * w = s * w + (IF b = bank THEN w ELSE 0)
  <2>1. CASE b = bank
    <3>1. n = s + 1
      BY <1>5, <2>1
    <3>2. (s + 1) * w = s * w + w
      BY <1>1, <1>4, SMT
    <3> QED
      BY <2>1, <3>1, <3>2
  <2>2. CASE b # bank
    <3>1. n = s
      BY <1>4, <1>5, <2>2, SMT
    <3>2. s * w = s * w + 0
      BY <1>8, SMT
    <3> QED
      BY <2>2, <3>1, <3>2
  <2> QED
    BY <2>1, <2>2
<1> DEFINE sw == s * w
           tw == t * w
           nw == n * w
           x == bank_done(b)
           y == bank_size(b)
<1>10. /\ sw <= tw /\ sw \in Nat /\ tw \in Nat /\ (b = bank => sw + w <= tw)
       /\ nw = sw + (IF b = bank THEN w ELSE 0)
       /\ x = sw + (IF b = bank THEN d ELSE 0) /\ y = tw
  BY <1>6, <1>7, <1>8, <1>9
<1> HIDE DEF sw, tw, nw, x, y
<1>11. /\ x \in 0 .. y
       /\ b = bank /\ d < w => x + 1 \in 1 .. y
       /\ d = 0 => x = sw
       /\ d = w => x = nw
  BY <1>1, <1>2, <1>10, SMT
<1> QED
  BY <1>2, <1>11 DEF w, d, s, n, x, y, sw, nw

-----------------------------------------------------------------------------
(* The words in the queues.                                                *)

\* The layer's words and numbers are words and parameters.
LEMMA WordTypes ==
  ASSUME DriverOK, NEW k \in 1 .. layer.words
  PROVE  /\ InputWord(drv.layer, drv.pixel, k) \in Words
         /\ \A ch \in 1 .. layer.channels : FilterWord(drv.layer, ch, k) \in Words
         /\ drv.layer \in Params /\ 1 .. layer.channels \subseteq Params
<1>1. layers \in Programs /\ drv.layer \in DOMAIN layers /\ layer = layers[drv.layer]
  BY DEF DriverOK, layer
<1>2. drv.pixel \in 1 .. PIXELS
  <2>1. drv.pixel \in Nat \ {0} /\ drv.pixel <= last_pixel
    BY GroupFacts
  <2>2. last_pixel \in 1 .. PIXELS
    BY ShapeFacts
  <2> QED
    BY <2>1, <2>2, BoundsAssumption, SMT
<1> QED
  BY <1>1, <1>2, DataAssumption

\* A sequence given by a formula, and the next element.
LEMMA Extended ==
  ASSUME NEW S, NEW n \in Nat, NEW f, NEW t, t = [i \in 1 .. n + 1 |-> f[i]], NEW s,
         s = [i \in 1 .. n |-> f[i]], \A i \in 1 .. n + 1 : f[i] \in S
  PROVE  Append(s, f[n + 1]) = t
<1>1. 1 .. n \subseteq 1 .. n + 1 /\ n + 1 \in 1 .. n + 1 /\ n + 1 \in Nat
  BY SMT
<1>2. s \in Seq(S) /\ Len(s) = n
  <2>1. s \in [1 .. n -> S]
    BY <1>1
  <2> QED
    BY <2>1, FunctionIsSequence
<1>3. t \in Seq(S) /\ Len(t) = n + 1
  <2>1. t \in [1 .. n + 1 -> S]
    OBVIOUS
  <2> QED
    BY <1>1, <2>1, FunctionIsSequence
<1> DEFINE u == Append(s, f[n + 1])
<1>4. /\ u \in Seq(S) /\ Len(u) = n + 1 /\ u[n + 1] = f[n + 1]
      /\ \A i \in 1 .. n : u[i] = s[i]
  <2>1. f[n + 1] \in S
    BY <1>1
  <2> QED
    BY <1>2, <2>1, AppendElements
<1> HIDE DEF u
<1>5. ASSUME NEW i \in 1 .. n + 1
      PROVE  u[i] = t[i]
  <2>1. i \in 1 .. n \/ i = n + 1
    BY SMT
  <2>2. t[i] = f[i] /\ (i \in 1 .. n => s[i] = f[i])
    OBVIOUS
  <2> QED
    BY <1>4, <2>1, <2>2
<1>6. u = t
  BY <1>3, <1>4, <1>5, SeqEqual
<1> QED
  BY <1>6 DEF u

\* A pixel's words.
LEMMA PixelWordsType ==
  ASSUME DriverOK, NEW n \in 0 .. layer.words
  PROVE  PixelWords(n) \in Seq(Words) /\ Len(PixelWords(n)) = n
<1>1. n \in Nat /\ 1 .. n \subseteq 1 .. layer.words
  BY ShapeFacts, SMT
<1>2. PixelWords(n) \in [1 .. n -> Words]
  BY <1>1, WordTypes DEF PixelWords
<1> QED
  BY <1>1, <1>2, FunctionIsSequence

\* ... and one more.
LEMMA PixelWordsNext ==
  ASSUME DriverOK, NEW k \in 1 .. layer.words
  PROVE  /\ Append(PixelWords(k - 1), InputWord(drv.layer, drv.pixel, k)) = PixelWords(k)
         /\ PixelWords(k)[k] = InputWord(drv.layer, drv.pixel, k)
<1> DEFINE f == [i \in 1 .. layer.words |-> InputWord(drv.layer, drv.pixel, i)]
<1>1. k - 1 \in Nat /\ (k - 1) + 1 = k /\ 1 .. k \subseteq 1 .. layer.words
        /\ 1 .. k - 1 \subseteq 1 .. k /\ k \in 1 .. k
  BY ShapeFacts, SMT
<1>2. \A i \in 1 .. layer.words : f[i] \in Words /\ f[i] = InputWord(drv.layer, drv.pixel, i)
  BY WordTypes
<1>3. PixelWords(k) = [i \in 1 .. k |-> f[i]] /\ PixelWords(k - 1) = [i \in 1 .. k - 1 |-> f[i]]
  BY <1>1, <1>2 DEF PixelWords
<1> HIDE DEF f
<1>4. Append(PixelWords(k - 1), f[(k - 1) + 1]) = PixelWords(k)
  <2>1. \A i \in 1 .. (k - 1) + 1 : f[i] \in Words
    BY <1>1, <1>2
  <2>2. PixelWords(k) = [i \in 1 .. (k - 1) + 1 |-> f[i]]
    BY <1>1, <1>3
  <2> DEFINE n == k - 1
  <2>3. n \in Nat /\ (\A i \in 1 .. n + 1 : f[i] \in Words)
          /\ PixelWords(k) = [i \in 1 .. n + 1 |-> f[i]] /\ PixelWords(n) = [i \in 1 .. n |-> f[i]]
    BY <1>1, <1>3, <2>1, <2>2
  <2> HIDE DEF n
  <2>4. Append(PixelWords(n), f[n + 1]) = PixelWords(k)
    BY <2>3, Extended
  <2> QED
    BY <2>4 DEF n
<1>5. PixelWords(k)[k] = f[k]
  BY <1>1, <1>3
<1> QED
  BY <1>1, <1>2, <1>4, <1>5

ProductOf(k) == <<InputWord(drv.layer, drv.pixel, k), drv.layer, FilterWord(drv.layer, drv.ch, k)>>

\* The products of an output, and one more.
LEMMA ProductsNext ==
  ASSUME DriverOK, NEW k \in 1 .. layer.words
  PROVE  /\ Append(Products(k - 1), ProductOf(k)) = Products(k)
         /\ Products(0) = <<>>
<1> DEFINE f == [i \in 1 .. layer.words |-> ProductOf(i)]
           S == Words \X Params \X Words
           n == k - 1
<1>1. /\ n \in Nat /\ n + 1 = k
      /\ 1 .. n + 1 \subseteq 1 .. layer.words /\ 1 .. n \subseteq 1 .. layer.words
        /\ n + 1 \in 1 .. layer.words
  BY ShapeFacts, SMT
<1>2. drv.ch \in 1 .. layer.channels
  BY GroupFacts, ShapeFacts, SMT
<1>3. \A i \in 1 .. layer.words : f[i] \in S /\ f[i] = ProductOf(i)
  BY <1>2, WordTypes DEF ProductOf
<1>4. \A m : 1 .. m \subseteq 1 .. layer.words => Products(m) = [i \in 1 .. m |-> f[i]]
  BY <1>3 DEF Products, ProductOf
<1> HIDE DEF f, S, n
<1>5. Append(Products(n), f[n + 1]) = Products(n + 1)
  <2>1. \A i \in 1 .. n + 1 : f[i] \in S
    BY <1>1, <1>3
  <2>2. Products(n) = [i \in 1 .. n |-> f[i]] /\ Products(n + 1) = [i \in 1 .. n + 1 |-> f[i]]
    BY <1>1, <1>4
  <2> QED
    BY <1>1, <2>1, <2>2, Extended
<1>6. f[n + 1] = ProductOf(n + 1)
  BY <1>1, <1>3
<1>7. Products(0) = <<>>
  BY SMT DEF Products
<1> QED
  BY <1>1, <1>5, <1>6, <1>7 DEF n

\* The filter word that is the i-th of bank b in a group.
FilterWordAt(b, i) ==
  FilterWord(drv.layer, drv.group + b + FILTER_BANKS * ((i - 1) \div layer.words),
             ((i - 1) % layer.words) + 1)

\* The words of a bank.
LEMMA FilterWordType ==
  ASSUME DriverOK, NEW b \in Banks, NEW i \in 1 .. bank_size(b)
  PROVE  FilterWordAt(b, i) \in Words
<1> DEFINE w == layer.words
           q == (i - 1) \div w
           r == (i - 1) % w
           s == Share(b, group_size)
<1>1. w \in Nat \ {0} /\ bank_size(b) = s * w /\ s \in Nat /\ bank_size(b) \in Nat
  BY ShapeFacts, BankSizes
<1>2. i - 1 \in Nat /\ i - 1 < s * w
  <2> DEFINE n == s * w
  <2>1. n \in Nat /\ i \in 1 .. n
    BY <1>1
  <2> HIDE DEF n
  <2>2. i - 1 \in Nat /\ i - 1 < n
    BY <2>1, SMT
  <2> QED
    BY <2>2 DEF n
<1>3. q \in Nat /\ r \in 0 .. w - 1 /\ i - 1 = w * q + r
  <2> DEFINE j == i - 1
  <2>1. j \in Nat
    BY <1>2
  <2> HIDE DEF j
  <2>2. j \div w \in Nat /\ j % w \in 0 .. w - 1 /\ j = w * (j \div w) + (j % w)
    BY <1>1, <2>1, Division
  <2> QED
    BY <2>2 DEF j
<1>4. FilterWordAt(b, i) = FilterWord(drv.layer, drv.group + b + FILTER_BANKS * q, r + 1)
  BY DEF FilterWordAt
<1> HIDE DEF w, q, r, s
<1>5. q < s
  <2>1. SUFFICES ASSUME s <= q PROVE FALSE
    BY <1>1, <1>3, SMT
  <2>2. s * w <= w * q
    BY <1>1, <1>3, <2>1, SMT
  <2> DEFINE sw == s * w
             wq == w * q
  <2>3. sw <= wq /\ sw \in Nat /\ wq \in Nat /\ i - 1 < sw /\ i - 1 = wq + r
    <3>1. w * q \in Nat /\ s * w \in Nat
      BY <1>1, <1>3, SMT
    <3> QED
      BY <1>2, <1>3, <2>2, <3>1
  <2> HIDE DEF sw, wq
  <2> QED
    BY <1>1, <1>2, <1>3, <2>3, SMT
<1>6. r + 1 \in 1 .. w
  BY <1>1, <1>3, SMT
<1>7. drv.group + b + FILTER_BANKS * q \in 1 .. layer.channels
  <2> DEFINE g == drv.group
             e == group_end
             j == q + 1
  <2>1. g \in Nat \ {0} /\ e \in Nat \ {0} /\ g <= e /\ e <= layer.channels
          /\ layer.channels \in Nat /\ group_size = e - g + 1
    <3>1. /\ g \in Nat \ {0} /\ e \in Nat \ {0} /\ g <= drv.ch /\ drv.ch <= e
          /\ e <= layer.channels /\ drv.ch \in Nat
      BY GroupFacts
    <3>2. layer.channels \in Nat
      BY ShapeFacts
    <3> QED
      BY <3>1, <3>2, SMT DEF group_size
  <2>2. j \in 1 .. Share(b, e - g + 1) /\ j - 1 = q
    BY <1>1, <1>3, <1>5, <2>1, SMT DEF s
  <2> HIDE DEF g, e, j
  <2>3. g + b + FILTER_BANKS * (j - 1) \in g .. e
    <3>1. g <= e + 1
      BY <2>1, SMT
    <3> QED
      BY <2>1, <2>2, <3>1, SharedChannel
  <2>4. g + b + FILTER_BANKS * q \in g .. e
    BY <2>2, <2>3
  <2>5. g .. e \subseteq 1 .. layer.channels
    BY <2>1, SMT
  <2> QED
    BY <2>4, <2>5 DEF g
<1> QED
  BY <1>4, <1>6, <1>7, WordTypes DEF w

\* ... are a queue of words.
LEMMA FilterWordsType ==
  ASSUME DriverOK, NEW b \in Banks, NEW n \in 0 .. bank_size(b)
  PROVE  FilterWords(b, n) \in Seq(Words) /\ Len(FilterWords(b, n)) = n
<1>1. n \in Nat /\ 1 .. n \subseteq 1 .. bank_size(b)
  BY BankSizes, SMT
<1>2. FilterWords(b, n) = [i \in 1 .. n |-> FilterWordAt(b, i)]
  BY DEF FilterWords, FilterWordAt
<1>3. FilterWords(b, n) \in [1 .. n -> Words]
  BY <1>1, <1>2, FilterWordType
<1> QED
  BY <1>1, <1>3, FunctionIsSequence

\* The word of the present channel that comes next is the next one of its bank.
LEMMA FilterWordNext ==
  ASSUME DriverOK, NEW b \in Banks, b = bank, words_done = drv.k - 1
  PROVE  FilterWordAt(b, bank_done(b) + 1) = FilterWord(drv.layer, drv.ch, drv.k)
<1> DEFINE w == layer.words
           u == Share(b, before)
           k == drv.k
           F == FILTER_BANKS
<1>1. /\ w \in Nat \ {0} /\ k \in Nat \ {0} /\ k <= w
      /\ before \in Nat /\ drv.ch \in Nat /\ drv.group \in Nat
  BY ShapeFacts, GroupFacts
<1>2. F \in Nat \ {0} /\ b \in 0 .. F - 1 /\ b = before % F
  BY BanksAssumption DEF Banks, bank
<1>3. u = before \div F /\ u \in Nat /\ before = F * u + b
  <2>1. before \div F \in Nat /\ before % F \in 0 .. F - 1
          /\ before = F * (before \div F) + (before % F)
    BY <1>1, <1>2, Division
  <2>2. u = before \div F + (IF b < before % F THEN 1 ELSE 0)
    BY DEF Share
  <2>3. u = before \div F
    <3> DEFINE p == before \div F
               t == before % F
    <3>1. p \in Nat /\ t = b /\ u = p + (IF b < t THEN 1 ELSE 0) /\ b \in Int
      BY <1>2, <2>1, <2>2
    <3> HIDE DEF p, t, u, F
    <3>2. u = p
      BY <3>1, SMT
    <3> QED
      BY <3>2 DEF p
  <2> QED
    BY <1>2, <2>1, <2>3
<1>4. bank_done(b) = u * w + (k - 1)
  BY DEF bank_done
<1>5. before = drv.ch - drv.group
  BY DEF before
<1> DEFINE x == bank_done(b)
<1> HIDE DEF w, u, k, F, x
<1>6. (x + 1) - 1 = w * u + (k - 1) /\ k - 1 \in 0 .. w - 1
  <2>1. u * w = w * u /\ u * w \in Nat
    BY <1>1, <1>3, SMT
  <2>2. x = u * w + (k - 1)
    BY <1>4 DEF x
  <2> DEFINE y == u * w
  <2>3. y \in Nat /\ x = y + (k - 1) /\ y = w * u
    BY <2>1, <2>2
  <2> HIDE DEF y
  <2>4. (x + 1) - 1 = y + (k - 1) /\ k - 1 \in 0 .. w - 1
    BY <1>1, <2>3, SMT
  <2> QED
    BY <2>3, <2>4
<1>7. ((x + 1) - 1) \div w = u /\ ((x + 1) - 1) % w = k - 1
  <2>1. (w * u + (k - 1)) \div w = u /\ (w * u + (k - 1)) % w = k - 1
    BY <1>1, <1>3, <1>6, Quotient
  <2> QED
    BY <1>6, <2>1
<1>8. drv.group + b + F * u = drv.ch
  <2>1. F * u \in Nat
    BY <1>2, <1>3, SMT
  <2> DEFINE y == F * u
  <2>2. y \in Nat /\ before = y + b
    BY <1>3, <2>1
  <2> HIDE DEF y
  <2>3. drv.group + b + y = drv.ch
    <3>1. b \in Int /\ drv.group \in Int /\ drv.ch \in Int
      BY <1>1, <1>2
    <3>2. y + b = drv.ch - drv.group
      BY <1>5, <2>2
    <3> QED
      BY <2>2, <3>1, <3>2, SMT
  <2> QED
    BY <2>3 DEF y
<1>9. (k - 1) + 1 = k
  BY <1>1, SMT
<1>10. FilterWordAt(b, x + 1) =
         FilterWord(drv.layer, drv.group + b + F * (((x + 1) - 1) \div w), (((x + 1) - 1) % w) + 1)
  BY DEF FilterWordAt, F, w
<1> QED
  BY <1>7, <1>8, <1>9, <1>10 DEF x, k

\* ... which the next word extends.
LEMMA FilterWordsNext ==
  ASSUME DriverOK, NEW b \in Banks, NEW n \in Nat, n + 1 \in 1 .. bank_size(b)
  PROVE  /\ Append(FilterWords(b, n), FilterWordAt(b, n + 1)) = FilterWords(b, n + 1)
         /\ FilterWords(b, bank_size(b))[n + 1] = FilterWordAt(b, n + 1)
<1> DEFINE z == bank_size(b)
           f == [i \in 1 .. z |-> FilterWordAt(b, i)]
<1>1. z \in Nat /\ 1 .. n + 1 \subseteq 1 .. z /\ 1 .. n \subseteq 1 .. z /\ n + 1 \in 1 .. n + 1
        /\ n + 1 \in 1 .. z
  <2>1. z \in Nat /\ n + 1 \in 1 .. z
    BY BankSizes
  <2> HIDE DEF z
  <2> QED
    BY <2>1, SMT
<1>2. \A i \in 1 .. z : f[i] \in Words /\ f[i] = FilterWordAt(b, i)
  BY FilterWordType
<1>3. \A m : 1 .. m \subseteq 1 .. z => FilterWords(b, m) = [i \in 1 .. m |-> f[i]]
  BY <1>2 DEF FilterWords, FilterWordAt
<1> HIDE DEF f, z
<1>4. Append(FilterWords(b, n), f[n + 1]) = FilterWords(b, n + 1)
  <2>1. \A i \in 1 .. n + 1 : f[i] \in Words
    BY <1>1, <1>2
  <2>2. /\ FilterWords(b, n) = [i \in 1 .. n |-> f[i]]
        /\ FilterWords(b, n + 1) = [i \in 1 .. n + 1 |-> f[i]]
    BY <1>1, <1>3
  <2> QED
    BY <2>1, <2>2, Extended
<1>5. FilterWords(b, z)[n + 1] = f[n + 1]
  BY <1>1, <1>3
<1> QED
  BY <1>1, <1>2, <1>4, <1>5 DEF z

\* The words of all channels that share a bank are those the property names.
LEMMA LoadedIsAll ==
  ASSUME DriverOK, NEW b \in Banks
  PROVE  LoadedFilter(b) = FilterWords(b, bank_size(b))
<1>1. /\ drv.group \in Nat /\ group_end \in Nat /\ drv.group <= group_end + 1
      /\ group_size = group_end - drv.group + 1
  BY GroupFacts, SMT DEF group_size
<1>2. Cardinality({ch \in drv.group .. group_end : (ch - drv.group) % FILTER_BANKS = b}) =
        Share(b, group_size)
  BY <1>1, SharingCounted
<1> QED
  BY <1>2 DEF LoadedFilter, FilterWords, bank_size

-----------------------------------------------------------------------------
(* What a step of the driver leaves as it is.                              *)

SameGroup == drv'.layer = drv.layer /\ drv'.group = drv.group /\ layers' = layers

SameChannel == SameGroup /\ drv'.ch = drv.ch

\* What depends on the layer and the group only.
LEMMA GroupFrame ==
  ASSUME SameGroup
  PROVE  /\ layer' = layer /\ group_size' = group_size /\ group_end' = group_end
         /\ \A b : bank_size(b)' = bank_size(b)
         /\ \A b, n : FilterWords(b, n)' = FilterWords(b, n)
<1>1. drv'.layer = drv.layer /\ drv'.group = drv.group /\ layers' = layers
  BY DEF SameGroup
<1>2. layer' = layer
  BY <1>1 DEF layer
<1>3. group_end' = group_end
  BY <1>1, <1>2 DEF group_end
<1>4. group_size' = group_size
  BY <1>1, <1>3 DEF group_size
<1>5. \A b : bank_size(b)' = bank_size(b)
  BY <1>2, <1>4 DEF bank_size
<1>6. \A b, n : FilterWords(b, n)' = FilterWords(b, n)
  BY <1>1, <1>2 DEF FilterWords
<1> QED
  BY <1>2, <1>3, <1>4, <1>5, <1>6

\* What depends on the layer and the pixel only.
LEMMA PixelFrame ==
  ASSUME drv'.layer = drv.layer, drv'.pixel = drv.pixel
  PROVE  \A n : PixelWords(n)' = PixelWords(n)
  BY DEF PixelWords

\* What depends on the channel.
LEMMA ChannelFrame ==
  ASSUME SameChannel
  PROVE  before' = before /\ bank' = bank
<1>1. before' = before
  BY DEF SameChannel, SameGroup, before
<1> QED
  BY <1>1 DEF bank

\* What depends on the channel and the pixel.
LEMMA ProductsFrame ==
  ASSUME SameChannel, drv'.pixel = drv.pixel
  PROVE  \A n : Products(n)' = Products(n)
  BY DEF SameChannel, SameGroup, Products

\* What a bank has done only depends on the channel and the words done of it.
LEMMA DoneFrame ==
  ASSUME SameChannel
  PROVE  \A b : bank_done(b)' = Share(b, before) * layer.words
                                  + (IF b = bank THEN words_done' ELSE 0)
<1>1. layer' = layer /\ before' = before /\ bank' = bank
  BY GroupFrame, ChannelFrame DEF SameChannel
<1>2. \A b : Share(b, before') = Share(b, before)
  BY <1>1
<1> QED
  BY <1>1, <1>2 DEF bank_done

-----------------------------------------------------------------------------
(* The commands, one by one.                                               *)

ParNames == {"mac_offset", "bias", "mul", "shift", "offset", "clamp"}

\* A command that sets parameters sets these and no others.
LEMMA ParametersSet ==
  ASSUME regs \in RegisterValues, NEW names \in SUBSET ParNames, NEW v \in Params,
         SetParameters(names, v)
  PROVE  \E g \in RegisterValues :
           /\ Accept(NoFlags, g)
           /\ \A n \in ParNames : g.par[n] = IF n \in names THEN v ELSE regs.par[n]
           /\ g.acc = regs.acc /\ g.wr_idx = regs.wr_idx /\ g.rd_idx = regs.rd_idx
<1> DEFINE g == [regs EXCEPT !.par = [n \in DOMAIN @ |-> IF n \in names THEN v ELSE @[n]]]
<1>1. DOMAIN NewPar = ParNames
  BY DEF NewPar, ParNames
<1>2. regs \in [acc : Seq(Words \X Params \X Words), in_word : Words, filter_word : Words,
                wr_idx : Banks, rd_idx : Banks, par : [ParNames -> Params]]
  BY <1>1 DEF RegisterValues
<1>3. regs.par \in [ParNames -> Params]
  BY <1>2
<1> DEFINE p == [n \in DOMAIN regs.par |-> IF n \in names THEN v ELSE regs.par[n]]
<1>4. /\ p \in [ParNames -> Params]
      /\ \A n \in ParNames : p[n] = IF n \in names THEN v ELSE regs.par[n]
  BY <1>3
<1>5. g = [regs EXCEPT !.par = p] /\ Accept(NoFlags, g)
  BY DEF SetParameters
<1> HIDE DEF p, g
<1>6. g \in [acc : Seq(Words \X Params \X Words), in_word : Words, filter_word : Words,
             wr_idx : Banks, rd_idx : Banks, par : [ParNames -> Params]]
        /\ g.par = p /\ g.acc = regs.acc /\ g.wr_idx = regs.wr_idx /\ g.rd_idx = regs.rd_idx
  BY <1>2, <1>4, <1>5
<1> QED
  BY <1>1, <1>4, <1>5, <1>6 DEF RegisterValues

\* A command that raises no strobe.
LEMMA RegisterStep ==
  ASSUME GInv, NEW g \in RegisterValues, Accept(NoFlags, g), drv'.pc # "store",
         drv'.pc = "mac" => g.par = regs.par
  PROVE  /\ CircuitOK' /\ QuantizerOK' /\ TimingOK'
         /\ In' = In /\ \A b \in Banks : Bank(b)' = Bank(b)
         /\ regs' = g /\ design' = design /\ rsp'.valid /\ cmd_ready
<1>1. CircuitOK /\ TimingOK /\ QuantizerOK
  BY DEF GInv
<1>2. NoFlags \in Strobes /\ ~NoFlags.qnt_start /\ StrobesFit(NoFlags)
  BY NoFlagsFields DEF StrobesFit, CanAct
<1>3. /\ CircuitOK' /\ QuantizerOK'
      /\ In' = After(In, NoFlags.in_clear, NoFlags.in_write, g.in_word, NoFlags.in_read)
      /\ \A b \in Banks :
           Bank(b)' = After(Bank(b), NoFlags.filter_clear, b \in NoFlags.filter_write,
                            g.filter_word, b \in NoFlags.filter_read)
      /\ cmd_ready /\ flags' = NoFlags /\ regs' = g /\ design' = design
      /\ rsp'.valid /\ ~rsp'.pending
      /\ offset_applied' = regs.par["mac_offset"]
      /\ Fresh(inputs') /\ \A b \in Banks : Fresh(banks'[b])
  BY <1>1, <1>2, AcceptStep
<1>4. In' = In /\ \A b \in Banks : Bank(b)' = Bank(b)
  BY <1>3, NoFlagsFields DEF After
<1>5. TimingOK'
  BY <1>3, NoFlagsFields DEF TimingOK, cmd_ready, At
<1> QED
  BY <1>3, <1>4, <1>5

\* ... and touches nothing else of the circuit.
LEMMA SetParametersStep ==
  ASSUME GInv, NEW names \in SUBSET ParNames, NEW v \in Params, SetParameters(names, v),
         drv'.pc \notin {"store", "mac"}
  PROVE  /\ CircuitOK' /\ QuantizerOK' /\ TimingOK'
         /\ In' = In /\ \A b \in Banks : Bank(b)' = Bank(b)
         /\ design' = design /\ rsp'.valid /\ cmd_ready
         /\ \A n \in ParNames : regs'.par[n] = IF n \in names THEN v ELSE regs.par[n]
         /\ regs'.acc = regs.acc /\ regs'.wr_idx = regs.wr_idx /\ regs'.rd_idx = regs.rd_idx
<1>1. regs \in RegisterValues
  BY DEF GInv, CircuitOK
<1>2. PICK g \in RegisterValues :
        /\ Accept(NoFlags, g)
        /\ \A n \in ParNames : g.par[n] = IF n \in names THEN v ELSE regs.par[n]
        /\ g.acc = regs.acc /\ g.wr_idx = regs.wr_idx /\ g.rd_idx = regs.rd_idx
  BY <1>1, ParametersSet
<1>4. /\ CircuitOK' /\ QuantizerOK' /\ TimingOK'
      /\ In' = In /\ \A b \in Banks : Bank(b)' = Bank(b)
      /\ regs' = g /\ design' = design /\ rsp'.valid /\ cmd_ready
  BY <1>2, RegisterStep
<1> QED
  BY <1>2, <1>4

\* The driver's parameters are parameters.
LEMMA ChannelParams ==
  ASSUME DriverOK
  PROVE  drv.layer \in Params /\ drv.ch \in Params
<1>1. 1 \in 1 .. layer.words
  BY ShapeFacts, SMT
<1>2. drv.ch \in 1 .. layer.channels
  BY GroupFacts, ShapeFacts, SMT
<1> QED
  BY <1>1, <1>2, WordTypes

\* An output that was right stays so.
LEMMA OutputsFrame ==
  ASSUME OutputsRight, UNCHANGED <<layers, stored>>
  PROVE  OutputsRight'
  BY DEF OutputsRight

-----------------------------------------------------------------------------
(* The commands that set up a layer.                                       *)

\* MacSetOffset, SetOffset and SetMinAndMax.
LEMMA ConfigureStep ==
  ASSUME GInv, Configure, since' \in 0 .. MIN_GAP, UNCHANGED <<layers, stored>>
  PROVE  GInv'
<1>1. DriverOK /\ RegistersOK /\ OutputsRight
  BY DEF GInv
<1>2. drv.layer \in Params
  BY <1>1, ChannelParams
<1>3. PICK names \in SUBSET ParNames :
        /\ SetParameters(names, drv.layer)
        /\ \/ /\ drv.pc = "mac_offset" /\ names = {"mac_offset"}
              /\ drv' = [drv EXCEPT !.pc = "offset"]
           \/ /\ drv.pc = "offset" /\ names = {"offset"} /\ drv' = [drv EXCEPT !.pc = "clamp"]
           \/ /\ drv.pc = "clamp" /\ names = {"clamp"}
              /\ drv' = [drv EXCEPT !.pc = IF design = "banked" THEN "clear_filter"
                                           ELSE "clear_input"]
  BY DEF Configure, Issue, At, MacSetOffset, SetOffset, SetMinAndMax, ParNames
<1>4. drv = [pc |-> drv.pc, layer |-> drv.layer, group |-> drv.group, ch |-> drv.ch,
             pixel |-> drv.pixel, k |-> drv.k]
        /\ drv.k = 1 /\ drv.ch = drv.group
  BY <1>1, <1>3, DriverFields DEF Configuring
<1>5. /\ drv'.pc \in {"offset", "clamp", "clear_filter", "clear_input"}
      /\ drv' = [drv EXCEPT !.pc = drv'.pc, !.k = 1]
      /\ drv'.pc = "clear_filter" => design = "banked"
      /\ drv'.pc = "clear_input" => design # "banked"
  BY <1>3, <1>4
<1>6. /\ CircuitOK' /\ QuantizerOK' /\ TimingOK' /\ design' = design
      /\ \A n \in ParNames : regs'.par[n] = IF n \in names THEN drv.layer ELSE regs.par[n]
  BY <1>2, <1>3, <1>5, SetParametersStep
<1>7. DriverOK'
  <2>1. drv'.pc \in Steps
    BY <1>5 DEF Steps, Configuring, Filling
  <2>2. design = "streamed" => drv'.pc \notin Filling \cup {"rewind"}
    BY <1>5 DEF Filling
  <2>3. GoesTo(drv'.pc, drv.group, drv.ch, drv.pixel, 1)
    BY <1>1, <1>4, <1>5, <2>1, <2>2, Advances
  <2> QED
    BY <1>1, <1>6, <2>3, DriverGoesOn
<1>8. QueuesOK'
  BY <1>5, <1>6 DEF QueuesOK, At, Accumulating
<1>9. RegistersOK'
  <2>1. drv'.layer = drv.layer
    BY <1>4, <1>5
  <2> QED
    BY <1>1, <1>3, <1>4, <1>5, <1>6, <2>1
       DEF RegistersOK, Accumulating, Steps, Configuring, Filling, ParNames
<1>10. OutputsRight'
  BY <1>1, OutputsFrame
<1> QED
  BY <1>6, <1>7, <1>8, <1>9, <1>10 DEF GInv

\* The driver's step changes, and its place in the layer's words does not.
LEMMA StaysInChannel ==
  ASSUME DriverOK, NEW pc \in Steps, drv' = [drv EXCEPT !.pc = pc], layers' = layers
  PROVE  /\ SameChannel /\ drv'.pixel = drv.pixel /\ drv'.k = drv.k /\ drv'.pc = pc
         /\ drv'.layer = drv.layer /\ drv'.ch = drv.ch
         /\ layer' = layer /\ bank' = bank
         /\ drv.k = 1 => drv' = [drv EXCEPT !.pc = pc, !.k = 1]
<1>1. drv = [pc |-> drv.pc, layer |-> drv.layer, group |-> drv.group, ch |-> drv.ch,
             pixel |-> drv.pixel, k |-> drv.k]
  BY DriverFields
<1>2. SameChannel /\ drv'.pixel = drv.pixel /\ drv'.k = drv.k /\ drv'.pc = pc
        /\ drv'.layer = drv.layer /\ drv'.ch = drv.ch
        /\ (drv.k = 1 => drv' = [drv EXCEPT !.pc = pc, !.k = 1])
  BY <1>1 DEF SameChannel, SameGroup
<1> QED
  BY <1>2, GroupFrame, ChannelFrame DEF SameChannel

\* Between two steps that have the same words done the queues need not move.
LEMMA QueuesStay ==
  ASSUME DriverOK, QueuesOK, SameChannel, drv'.pixel = drv.pixel, design' = design,
         drv.pc \in Accumulating, drv'.pc \in Accumulating, words_done' = words_done,
         In' = In, \A b \in Banks : Bank(b)' = Bank(b)
  PROVE  QueuesOK'
<1>1. layer' = layer /\ (\A b : bank_size(b)' = bank_size(b))
        /\ \A b, n : FilterWords(b, n)' = FilterWords(b, n)
  BY GroupFrame DEF SameChannel
<1>2. \A n : PixelWords(n)' = PixelWords(n)
  BY PixelFrame DEF SameChannel, SameGroup
<1>3. \A b : bank_done(b)' = bank_done(b)
  BY DoneFrame DEF bank_done
<1>4. drv'.pc \notin {"input", "rewind", "filter", "next_set", "clear_input"}
  BY DEF Accumulating
<1>5. In' = Turned(PixelWords(layer.words), words_done)'
  <2>1. In = Turned(PixelWords(layer.words), words_done)
    BY DEF QueuesOK
  <2>2. PixelWords(layer.words)' = PixelWords(layer.words)
    BY <1>1, <1>2 DEF PixelWords
  <2> QED
    BY <2>1, <2>2 DEF Turned
<1>6. ASSUME design = "banked", NEW b \in Banks
      PROVE  Bank(b)' = Turned(FilterWords(b, bank_size(b)), bank_done(b))'
  <2>1. Bank(b) = Turned(FilterWords(b, bank_size(b)), bank_done(b))
    BY <1>6 DEF QueuesOK
  <2>2. FilterWords(b, bank_size(b))' = FilterWords(b, bank_size(b)) /\ bank_done(b)' = bank_done(b)
    BY <1>1, <1>3 DEF FilterWords
  <2> QED
    BY <2>1, <2>2 DEF Turned
<1> QED
  BY <1>4, <1>5, <1>6 DEF QueuesOK, At

\* SetBias.
LEMMA BiasStep ==
  ASSUME GInv, Issue("bias", SetBias(drv.ch), [drv EXCEPT !.pc = "mul"]), since' \in 0 .. MIN_GAP,
         UNCHANGED <<layers, stored>>
  PROVE  GInv'
<1>1. DriverOK /\ RegistersOK /\ OutputsRight /\ QueuesOK
  BY DEF GInv
<1>2. drv.pc = "bias" /\ SetParameters({"bias"}, drv.ch) /\ drv' = [drv EXCEPT !.pc = "mul"]
        /\ {"bias"} \subseteq ParNames
  BY DEF Issue, At, SetBias, ParNames
<1>3. drv.ch \in Params /\ "mul" \in Steps /\ drv.k = 1
  BY <1>1, <1>2, ChannelParams, DriverFields DEF Steps, Accumulating
<1>4. /\ SameChannel /\ drv'.pixel = drv.pixel /\ drv'.k = drv.k /\ drv'.pc = "mul"
      /\ drv'.layer = drv.layer /\ drv'.ch = drv.ch
      /\ layer' = layer /\ bank' = bank
      /\ drv' = [drv EXCEPT !.pc = "mul", !.k = 1]
  BY <1>1, <1>2, <1>3, StaysInChannel
<1>5. /\ CircuitOK' /\ QuantizerOK' /\ TimingOK' /\ design' = design
      /\ In' = In /\ \A b \in Banks : Bank(b)' = Bank(b)
      /\ \A n \in ParNames : regs'.par[n] = IF n \in {"bias"} THEN drv.ch ELSE regs.par[n]
      /\ regs'.acc = regs.acc /\ regs'.rd_idx = regs.rd_idx
  BY <1>2, <1>3, <1>4, SetParametersStep
<1>6. DriverOK'
  <2>1. GoesTo("mul", drv.group, drv.ch, drv.pixel, 1)
    BY <1>1, <1>3, <1>4, Advances DEF Configuring, Filling
  <2> QED
    BY <1>1, <1>5, <2>1, DriverGoesOn
<1>7. words_done' = words_done
  BY <1>2, <1>4 DEF words_done
<1>8. QueuesOK'
  BY <1>1, <1>2, <1>4, <1>5, <1>7, QueuesStay DEF Accumulating
<1>9. RegistersOK'
  <2>1. Products(words_done)' = Products(words_done)
    BY <1>4, <1>7, ProductsFrame DEF Products
  <2> QED
    BY <1>1, <1>2, <1>4, <1>5, <2>1
       DEF RegistersOK, Accumulating, Steps, Configuring, Filling, ParNames, At
<1>10. OutputsRight'
  BY <1>1, OutputsFrame
<1> QED
  BY <1>5, <1>6, <1>8, <1>9, <1>10 DEF GInv

\* SetMulAndShift.
LEMMA MulStep ==
  ASSUME GInv, Issue("mul", SetMulAndShift(drv.ch), [drv EXCEPT !.pc = "get"]),
         since' \in 0 .. MIN_GAP, UNCHANGED <<layers, stored>>
  PROVE  GInv'
<1>1. DriverOK /\ RegistersOK /\ OutputsRight /\ QueuesOK
  BY DEF GInv
<1>2. drv.pc = "mul" /\ SetParameters({"mul", "shift"}, drv.ch) /\ drv' = [drv EXCEPT !.pc = "get"]
        /\ {"mul", "shift"} \subseteq ParNames
  BY DEF Issue, At, SetMulAndShift, ParNames
<1>3. drv.ch \in Params /\ "get" \in Steps /\ drv.k = 1
  BY <1>1, <1>2, ChannelParams, DriverFields DEF Steps, Accumulating
<1>4. /\ SameChannel /\ drv'.pixel = drv.pixel /\ drv'.k = drv.k /\ drv'.pc = "get"
      /\ drv'.layer = drv.layer /\ drv'.ch = drv.ch
      /\ layer' = layer /\ bank' = bank
      /\ drv' = [drv EXCEPT !.pc = "get", !.k = 1]
  BY <1>1, <1>2, <1>3, StaysInChannel
<1>5. /\ CircuitOK' /\ QuantizerOK' /\ TimingOK' /\ design' = design
      /\ In' = In /\ \A b \in Banks : Bank(b)' = Bank(b)
      /\ \A n \in ParNames : regs'.par[n] = IF n \in {"mul", "shift"} THEN drv.ch ELSE regs.par[n]
      /\ regs'.acc = regs.acc /\ regs'.rd_idx = regs.rd_idx
  BY <1>2, <1>3, <1>4, SetParametersStep
<1>6. DriverOK'
  <2>1. GoesTo("get", drv.group, drv.ch, drv.pixel, 1)
    BY <1>1, <1>3, <1>4, Advances DEF Configuring, Filling
  <2> QED
    BY <1>1, <1>5, <2>1, DriverGoesOn
<1>7. words_done' = words_done
  BY <1>2, <1>4 DEF words_done
<1>8. QueuesOK'
  BY <1>1, <1>2, <1>4, <1>5, <1>7, QueuesStay DEF Accumulating
<1>9. RegistersOK'
  <2>1. Products(words_done)' = Products(words_done)
    BY <1>4, <1>7, ProductsFrame DEF Products
  <2> QED
    BY <1>1, <1>2, <1>4, <1>5, <2>1
       DEF RegistersOK, Accumulating, Steps, Configuring, Filling, ParNames, At
<1>10. OutputsRight'
  BY <1>1, OutputsFrame
<1> QED
  BY <1>5, <1>6, <1>8, <1>9, <1>10 DEF GInv

\* Registers that keep their types.
LEMMA RegisterFields ==
  ASSUME regs \in RegisterValues
  PROVE  /\ regs.acc \in Seq(Words \X Params \X Words) /\ regs.in_word \in Words
         /\ regs.filter_word \in Words /\ regs.wr_idx \in Banks /\ regs.rd_idx \in Banks
         /\ \A a \in Seq(Words \X Params \X Words) :
              LET g == [regs EXCEPT !.acc = a]
              IN  /\ g \in RegisterValues /\ g.acc = a /\ g.par = regs.par
                  /\ g.wr_idx = regs.wr_idx /\ g.rd_idx = regs.rd_idx
         /\ \A i \in Banks :
              LET g == [regs EXCEPT !.wr_idx = i]
              IN  /\ g \in RegisterValues /\ g.wr_idx = i /\ g.par = regs.par
                  /\ g.acc = regs.acc /\ g.rd_idx = regs.rd_idx
         /\ \A i \in Banks :
              LET g == [regs EXCEPT !.rd_idx = i]
              IN  /\ g \in RegisterValues /\ g.rd_idx = i /\ g.par = regs.par
                  /\ g.acc = regs.acc /\ g.wr_idx = regs.wr_idx
<1> DEFINE A == Seq(Words \X Params \X Words)
           P == [DOMAIN NewPar -> Params]
<1>1. regs \in [acc : A, in_word : Words, filter_word : Words, wr_idx : Banks, rd_idx : Banks,
                par : P]
  BY DEF RegisterValues
<1>2. RegisterValues =
        [acc : A, in_word : Words, filter_word : Words, wr_idx : Banks, rd_idx : Banks, par : P]
  BY DEF RegisterValues
<1> HIDE DEF A, P
<1>3. /\ regs.acc \in A /\ regs.in_word \in Words
      /\ regs.filter_word \in Words /\ regs.wr_idx \in Banks /\ regs.rd_idx \in Banks
  BY <1>1
<1>4. \A a \in A :
        LET g == [regs EXCEPT !.acc = a]
        IN  /\ g \in RegisterValues /\ g.acc = a /\ g.par = regs.par
            /\ g.wr_idx = regs.wr_idx /\ g.rd_idx = regs.rd_idx
  BY <1>1, <1>2
<1>5. \A i \in Banks :
        LET g == [regs EXCEPT !.wr_idx = i]
        IN  /\ g \in RegisterValues /\ g.wr_idx = i /\ g.par = regs.par
            /\ g.acc = regs.acc /\ g.rd_idx = regs.rd_idx
  BY <1>1, <1>2
<1>6. \A i \in Banks :
        LET g == [regs EXCEPT !.rd_idx = i]
        IN  /\ g \in RegisterValues /\ g.rd_idx = i /\ g.par = regs.par
            /\ g.acc = regs.acc /\ g.wr_idx = regs.wr_idx
  BY <1>1, <1>2
<1> QED
  BY <1>3, <1>4, <1>5, <1>6 DEF A

\* MacClear.
LEMMA MacClearStep ==
  ASSUME GInv, Issue("clear_acc", MacClear, [drv EXCEPT !.pc = "mac"]), since' \in 0 .. MIN_GAP,
         UNCHANGED <<layers, stored>>
  PROVE  GInv'
<1>1. DriverOK /\ RegistersOK /\ OutputsRight /\ QueuesOK /\ regs \in RegisterValues
  BY DEF GInv, CircuitOK
<1> DEFINE g == [regs EXCEPT !.acc = <<>>]
<1>2. drv.pc = "clear_acc" /\ Accept(NoFlags, g) /\ drv' = [drv EXCEPT !.pc = "mac"]
  BY DEF Issue, At, MacClear
<1>3. g \in RegisterValues /\ g.acc = <<>> /\ g.par = regs.par /\ g.rd_idx = regs.rd_idx
  <2>1. <<>> \in Seq(Words \X Params \X Words)
    BY EmptySeq
  <2> QED
    BY <1>1, <2>1, RegisterFields
<1> HIDE DEF g
<1>4. "mac" \in Steps /\ drv.k = 1
  BY <1>1, <1>2, DriverFields DEF Steps, Accumulating
<1>5. /\ SameChannel /\ drv'.pixel = drv.pixel /\ drv'.k = drv.k /\ drv'.pc = "mac"
      /\ drv'.layer = drv.layer /\ drv'.ch = drv.ch
      /\ layer' = layer /\ bank' = bank
      /\ drv' = [drv EXCEPT !.pc = "mac", !.k = 1]
  BY <1>1, <1>2, <1>4, StaysInChannel
<1>6. /\ CircuitOK' /\ QuantizerOK' /\ TimingOK' /\ design' = design
      /\ In' = In /\ \A b \in Banks : Bank(b)' = Bank(b)
      /\ regs' = g /\ layers' = layers
  BY <1>2, <1>3, <1>5, RegisterStep
<1>7. DriverOK'
  <2>1. GoesTo("mac", drv.group, drv.ch, drv.pixel, 1)
    BY <1>1, <1>4, <1>5, Advances DEF Configuring, Filling
  <2> QED
    BY <1>1, <1>6, <2>1, DriverGoesOn
<1>8. words_done' = 0 /\ words_done = 0
  BY <1>2, <1>4, <1>5 DEF words_done
<1>9. QueuesOK'
  BY <1>1, <1>2, <1>5, <1>6, <1>8, QueuesStay DEF Accumulating
<1>10. RegistersOK'
  <2>1. Products(words_done)' = <<>>
    BY <1>8 DEF Products
  <2> QED
    BY <1>1, <1>2, <1>3, <1>5, <1>6, <2>1
       DEF RegistersOK, Accumulating, Steps, Configuring, Filling, ParNames, At
<1>11. OutputsRight'
  BY <1>1, OutputsFrame
<1> QED
  BY <1>6, <1>7, <1>9, <1>10, <1>11 DEF GInv

\* Get: the quantizer starts.
LEMMA GetStep ==
  ASSUME GInv, Issue("get", Get, [drv EXCEPT !.pc = "store"]), since' \in 0 .. MIN_GAP,
         UNCHANGED <<layers, stored>>
  PROVE  GInv'
<1>1. DriverOK /\ RegistersOK /\ OutputsRight /\ QueuesOK /\ CircuitOK /\ TimingOK /\ QuantizerOK
        /\ regs \in RegisterValues
  BY DEF GInv, CircuitOK
<1> DEFINE r == [rsp EXCEPT !.pending = TRUE, !.out = <<>>]
           f == [NoFlags EXCEPT !.qnt_start = TRUE]
<1>2. drv.pc = "get" /\ cmd_ready /\ Edge(r, f, regs) /\ drv' = [drv EXCEPT !.pc = "store"]
  BY DEF Issue, At, Get
<1>3. f \in Strobes /\ Quiet(f) /\ f.qnt_start
  BY NoFlagsFields DEF Strobes, Quiet, NoFlags
<1>4. ~rsp.valid /\ ~rsp.pending /\ flags = NoFlags
  BY <1>1, <1>2 DEF TimingOK, cmd_ready
<1>5. ResponseOK(r) /\ ~r.valid /\ r.pending
  <2>1. ResponseOK(rsp)
    BY <1>1 DEF CircuitOK, ResponseOK
  <2> QED
    BY <1>4, <2>1, ResponseFields
<1> HIDE DEF r, f
<1>6. /\ CircuitOK' /\ In' = In /\ \A b \in Banks : Bank(b)' = Bank(b)
      /\ rsp' = r /\ flags' = f /\ regs' = regs /\ design' = design /\ quant' = next_quant
  BY <1>1, <1>2, <1>3, <1>5, QuietEdge
<1>7. "store" \in Steps /\ drv.k = 1
  BY <1>1, <1>2, DriverFields DEF Steps, Accumulating
<1>8. /\ SameChannel /\ drv'.pixel = drv.pixel /\ drv'.k = drv.k /\ drv'.pc = "store"
      /\ drv'.layer = drv.layer /\ drv'.ch = drv.ch
      /\ layer' = layer /\ bank' = bank
      /\ drv' = [drv EXCEPT !.pc = "store", !.k = 1]
  BY <1>1, <1>2, <1>7, StaysInChannel
<1>9. DriverOK'
  <2>1. GoesTo("store", drv.group, drv.ch, drv.pixel, 1)
    BY <1>1, <1>7, <1>8, Advances DEF Configuring, Filling
  <2> QED
    BY <1>1, <1>6, <2>1, DriverGoesOn
<1>10. TimingOK'
  BY <1>5, <1>6, <1>8 DEF TimingOK, cmd_ready, At
<1>11. QuantizerOK'
  <2>1. ~quant.stage /\ ~flags.qnt_start /\ quant.stage = FALSE
    BY <1>1, <1>4 DEF QuantizerOK
  <2>2. quant'.stage = FALSE /\ quant'.status = FALSE
    BY <1>6, <2>1 DEF next_quant
  <2> QED
    BY <1>3, <1>5, <1>6, <1>8, <2>2 DEF QuantizerOK, At
<1>12. words_done' = words_done
  BY <1>2, <1>8 DEF words_done
<1>13. QueuesOK'
  BY <1>1, <1>2, <1>6, <1>8, <1>12, QueuesStay DEF Accumulating
<1>14. RegistersOK'
  <2>1. Products(words_done)' = Products(words_done)
    BY <1>8, <1>12, ProductsFrame DEF Products
  <2> QED
    BY <1>1, <1>2, <1>5, <1>6, <1>8, <2>1
       DEF RegistersOK, Accumulating, Steps, Configuring, Filling, At
<1>15. OutputsRight'
  BY <1>1, OutputsFrame
<1> QED
  BY <1>6, <1>9, <1>10, <1>11, <1>13, <1>14, <1>15 DEF GInv

\* A whole turn of the loaded filter words, and none.
LEMMA QueueTurns ==
  ASSUME DriverOK
  PROVE  /\ Turned(PixelWords(layer.words), 0) = PixelWords(layer.words)
         /\ Turned(PixelWords(layer.words), layer.words) = PixelWords(layer.words)
         /\ \A b \in Banks :
              /\ Turned(FilterWords(b, bank_size(b)), 0) = FilterWords(b, bank_size(b))
              /\ Turned(FilterWords(b, bank_size(b)), bank_size(b)) = FilterWords(b, bank_size(b))
<1>1. layer.words \in 0 .. layer.words
  BY ShapeFacts, SMT
<1>2. PixelWords(layer.words) \in Seq(Words) /\ Len(PixelWords(layer.words)) = layer.words
  BY <1>1, PixelWordsType
<1>3. /\ Turned(PixelWords(layer.words), 0) = PixelWords(layer.words)
      /\ Turned(PixelWords(layer.words), layer.words) = PixelWords(layer.words)
  BY <1>2, TurnedRound
<1>4. ASSUME NEW b \in Banks
      PROVE  /\ Turned(FilterWords(b, bank_size(b)), 0) = FilterWords(b, bank_size(b))
             /\ Turned(FilterWords(b, bank_size(b)), bank_size(b)) = FilterWords(b, bank_size(b))
  <2>1. bank_size(b) \in 0 .. bank_size(b)
    BY BankSizes, SMT
  <2>2. FilterWords(b, bank_size(b)) \in Seq(Words)
          /\ Len(FilterWords(b, bank_size(b))) = bank_size(b)
    BY <2>1, FilterWordsType
  <2> QED
    BY <2>2, TurnedRound
<1> QED
  BY <1>3, <1>4

\* At the first channel of a group nothing has been stored or used.
LEMMA FirstChannel ==
  ASSUME DriverOK, drv.ch = drv.group
  PROVE  bank = 0 /\ before = 0 /\ \A b \in Banks : Share(b, before) * layer.words = 0
<1>1. before = 0
  BY GroupFacts, SMT DEF before
<1>2. 0 % FILTER_BANKS = 0
  <2>1. 0 \in 0 .. FILTER_BANKS - 1 /\ FILTER_BANKS * 0 + 0 = 0
    BY BanksAssumption, SMT
  <2> QED
    BY <2>1, BanksAssumption, Quotient
<1>3. ASSUME NEW b \in Banks
      PROVE  Share(b, before) * layer.words = 0
  <2>1. Share(b, before) = 0
    BY <1>1, ShareType
  <2> QED
    BY <2>1, ShapeFacts, SMT
<1> QED
  BY <1>1, <1>2, <1>3 DEF bank

\* The next step is not a MAC_ON_BUFFER: its time does not matter yet.
LEMMA NoHurry ==
  ASSUME rsp'.valid, drv'.pc # "mac"
  PROVE  TimingOK'
  BY DEF TimingOK, cmd_ready, At

\* RewindFilterSet: the banks are whole, and the first is next.
LEMMA RewindStep ==
  ASSUME GInv, Issue("rewind", RewindFilterSet, [drv EXCEPT !.pc = "clear_acc"]),
         since' \in 0 .. MIN_GAP, UNCHANGED <<layers, stored>>
  PROVE  GInv'
<1>1. DriverOK /\ RegistersOK /\ OutputsRight /\ QueuesOK /\ regs \in RegisterValues
  BY DEF GInv, CircuitOK
<1> DEFINE g == [regs EXCEPT !.rd_idx = 0]
<1>2. drv.pc = "rewind" /\ design = "banked" /\ Accept(NoFlags, g)
        /\ drv' = [drv EXCEPT !.pc = "clear_acc"]
  BY DEF Issue, At, RewindFilterSet
<1>3. g \in RegisterValues /\ g.rd_idx = 0 /\ g.par = regs.par
  <2>1. 0 \in Banks
    BY BanksAssumption, SMT DEF Banks
  <2> QED
    BY <1>1, <2>1, RegisterFields
<1> HIDE DEF g
<1>4. "clear_acc" \in Steps /\ drv.k = 1 /\ drv.ch = drv.group
  BY <1>1, <1>2, DriverFields DEF Steps, Accumulating, Configuring
<1>5. /\ SameChannel /\ drv'.pixel = drv.pixel /\ drv'.k = drv.k /\ drv'.pc = "clear_acc"
      /\ drv'.layer = drv.layer /\ drv'.ch = drv.ch
      /\ layer' = layer /\ bank' = bank
      /\ drv' = [drv EXCEPT !.pc = "clear_acc", !.k = 1]
  BY <1>1, <1>2, <1>4, StaysInChannel
<1>6. /\ CircuitOK' /\ QuantizerOK' /\ TimingOK' /\ design' = design
      /\ In' = In /\ \A b \in Banks : Bank(b)' = Bank(b)
      /\ regs' = g /\ layers' = layers
  BY <1>2, <1>3, <1>5, RegisterStep
<1>7. DriverOK'
  <2>1. GoesTo("clear_acc", drv.group, drv.ch, drv.pixel, 1)
    BY <1>1, <1>4, <1>5, Advances DEF Configuring, Filling
  <2> QED
    BY <1>1, <1>6, <2>1, DriverGoesOn
<1>8. words_done' = 0
  BY <1>4, <1>5 DEF words_done
<1>9. QueuesOK'
  <2>1. layer' = layer /\ (\A b : bank_size(b)' = bank_size(b))
          /\ \A b, n : FilterWords(b, n)' = FilterWords(b, n)
    BY <1>5, GroupFrame DEF SameChannel
  <2>2. \A n : PixelWords(n)' = PixelWords(n)
    BY <1>5, PixelFrame DEF SameChannel, SameGroup
  <2>3. In' = Turned(PixelWords(layer.words), words_done)'
    <3>1. In = PixelWords(layer.words)
      BY <1>1, <1>2 DEF QueuesOK, At
    <3>2. PixelWords(layer.words)' = PixelWords(layer.words)
      BY <2>1, <2>2 DEF PixelWords
    <3> QED
      BY <1>1, <1>6, <1>8, <3>1, <3>2, QueueTurns DEF Turned
  <2>4. ASSUME NEW b \in Banks
        PROVE  Bank(b)' = Turned(FilterWords(b, bank_size(b)), bank_done(b))'
    <3>1. Bank(b) = FilterWords(b, bank_size(b))
      BY <1>1, <1>2 DEF QueuesOK
    <3>2. FilterWords(b, bank_size(b))' = FilterWords(b, bank_size(b))
      BY <2>1 DEF FilterWords
    <3>3. bank_done(b)' = 0
      <4>1. bank_done(b)' = Share(b, before) * layer.words + (IF b = bank THEN words_done' ELSE 0)
        BY <1>5, DoneFrame
      <4>2. Share(b, before) * layer.words = 0
        BY <1>1, <1>4, FirstChannel
      <4> QED
        BY <1>8, <4>1, <4>2, SMT
    <3> QED
      BY <1>1, <1>6, <3>1, <3>2, <3>3, QueueTurns DEF Turned
  <2> QED
    BY <1>5, <2>3, <2>4 DEF QueuesOK, At
<1>10. RegistersOK'
  <2>1. bank' = 0
    BY <1>1, <1>4, <1>5, FirstChannel
  <2> QED
    BY <1>1, <1>2, <1>3, <1>5, <1>6, <2>1
       DEF RegistersOK, Accumulating, Steps, Configuring, Filling, At
<1>11. OutputsRight'
  BY <1>1, OutputsFrame
<1> QED
  BY <1>6, <1>7, <1>9, <1>10, <1>11 DEF GInv

\* ClearFilterVals.
LEMMA ClearFilterStep ==
  ASSUME GInv, Issue("clear_filter", ClearFilterVals, [drv EXCEPT !.pc = "filter"]),
         since' \in 0 .. MIN_GAP, UNCHANGED <<layers, stored>>
  PROVE  GInv'
<1>1. /\ DriverOK /\ RegistersOK /\ OutputsRight /\ QueuesOK /\ CircuitOK /\ TimingOK
      /\ QuantizerOK /\ regs \in RegisterValues
  BY DEF GInv, CircuitOK
<1> DEFINE g == [regs EXCEPT !.wr_idx = 0, !.rd_idx = 0]
           f == [NoFlags EXCEPT !.filter_clear = TRUE]
<1>2. drv.pc = "clear_filter" /\ Accept(f, g) /\ drv' = [drv EXCEPT !.pc = "filter"]
  BY DEF Issue, At, ClearFilterVals
<1>3. g \in RegisterValues /\ g.wr_idx = 0 /\ g.par = regs.par
  <2>1. 0 \in Banks
    BY BanksAssumption, SMT DEF Banks
  <2> QED
    BY <1>1, <2>1 DEF RegisterValues
<1>4. f \in Strobes /\ StrobesFit(f) /\ ~f.qnt_start /\ f.filter_clear
  BY DEF Strobes, StrobesFit, CanAct, NoFlags
<1> HIDE DEF g, f
<1>5. "filter" \in Steps /\ drv.k = 1 /\ drv.ch = drv.group
  BY <1>1, <1>2, DriverFields DEF Steps, Filling, Configuring
<1>6. /\ SameChannel /\ drv'.pixel = drv.pixel /\ drv'.k = drv.k /\ drv'.pc = "filter"
      /\ drv'.layer = drv.layer /\ drv'.ch = drv.ch
      /\ layer' = layer /\ bank' = bank
      /\ drv' = [drv EXCEPT !.pc = "filter", !.k = 1]
  BY <1>1, <1>2, <1>5, StaysInChannel
<1>7. /\ CircuitOK' /\ QuantizerOK' /\ TimingOK' /\ regs' = g /\ design' = design
      /\ \A b \in Banks :
           Bank(b)' = After(Bank(b), f.filter_clear, b \in f.filter_write, g.filter_word,
                            b \in f.filter_read)
  <2>1. /\ CircuitOK' /\ QuantizerOK' /\ regs' = g /\ design' = design /\ rsp'.valid
        /\ \A b \in Banks :
             Bank(b)' = After(Bank(b), f.filter_clear, b \in f.filter_write, g.filter_word,
                              b \in f.filter_read)
    BY <1>1, <1>2, <1>3, <1>4, <1>6, AcceptStep
  <2> QED
    BY <1>6, <2>1, NoHurry
<1>8. DriverOK'
  <2>1. design = "streamed" => "filter" \notin Filling \cup {"rewind"}
    BY <1>1, <1>2 DEF DriverOK, Filling
  <2>2. GoesTo("filter", drv.group, drv.ch, drv.pixel, 1)
    BY <1>1, <1>5, <1>6, <2>1, Advances
  <2> QED
    BY <1>1, <1>7, <2>2, DriverGoesOn
<1>9. QueuesOK'
  <2>1. ASSUME NEW b \in Banks
        PROVE  Bank(b)' = FilterWords(b, bank_done(b))'
    <3>1. Bank(b)' = <<>>
      BY <1>4, <1>7 DEF After
    <3>2. words_done' = 0
      BY <1>5, <1>6 DEF words_done
    <3>3. bank_done(b)' = 0
      <4>1. bank_done(b)' = Share(b, before) * layer.words + (IF b = bank THEN words_done' ELSE 0)
        BY <1>6, DoneFrame
      <4>2. Share(b, before) * layer.words = 0
        BY <1>1, <1>5, FirstChannel
      <4> QED
        BY <3>2, <4>1, <4>2, SMT
    <3> QED
      BY <3>1, <3>3 DEF FilterWords
  <2> QED
    BY <1>6, <2>1 DEF QueuesOK, At, Accumulating
<1>10. RegistersOK'
  <2>1. bank' = 0
    BY <1>1, <1>5, <1>6, FirstChannel
  <2> QED
    BY <1>1, <1>2, <1>3, <1>6, <1>7, <2>1
       DEF RegistersOK, Accumulating, Steps, Configuring, Filling, At
<1>11. OutputsRight'
  BY <1>1, OutputsFrame
<1> QED
  BY <1>7, <1>8, <1>9, <1>10, <1>11 DEF GInv

\* ClearInputVals.
LEMMA ClearInputStep ==
  ASSUME GInv, Issue("clear_input", ClearInputVals, [drv EXCEPT !.pc = "input", !.ch = drv.group]),
         since' \in 0 .. MIN_GAP, UNCHANGED <<layers, stored>>
  PROVE  GInv'
<1>1. /\ DriverOK /\ RegistersOK /\ OutputsRight /\ QueuesOK /\ CircuitOK /\ TimingOK
      /\ QuantizerOK /\ regs \in RegisterValues
  BY DEF GInv, CircuitOK
<1> DEFINE f == [NoFlags EXCEPT !.in_clear = TRUE]
<1>2. drv.pc = "clear_input" /\ Accept(f, regs)
        /\ drv' = [drv EXCEPT !.pc = "input", !.ch = drv.group]
  BY DEF Issue, At, ClearInputVals
<1>3. f \in Strobes /\ StrobesFit(f) /\ ~f.qnt_start /\ f.in_clear
        /\ ~f.filter_clear /\ f.filter_write = {} /\ f.filter_read = {}
  BY DEF Strobes, StrobesFit, CanAct, NoFlags
<1> HIDE DEF f
<1>4. /\ drv = [pc |-> drv.pc, layer |-> drv.layer, group |-> drv.group, ch |-> drv.ch,
                pixel |-> drv.pixel, k |-> drv.k]
      /\ drv.k = 1 /\ "input" \in Steps
      /\ drv.group \in drv.group .. Minimum(drv.group + layer.group - 1, layer.channels)
      /\ drv.group \in 1 .. layer.channels /\ drv.pixel \in 1 .. last_pixel
      /\ 1 \in 1 .. layer.words
      /\ design = "streamed" => drv.group = 1
  BY <1>1, <1>2, DriverFields DEF Steps
<1>5. /\ drv' = [pc |-> "input", layer |-> drv.layer, group |-> drv.group, ch |-> drv.group,
                 pixel |-> drv.pixel, k |-> 1]
      /\ drv'.pc = "input" /\ drv'.layer = drv.layer /\ drv'.pixel = drv.pixel /\ drv'.k = 1
      /\ drv'.group = drv.group
  BY <1>2, <1>4
<1>6. /\ CircuitOK' /\ QuantizerOK' /\ TimingOK' /\ regs' = regs /\ design' = design
      /\ In' = After(In, f.in_clear, f.in_write, regs.in_word, f.in_read)
      /\ \A b \in Banks :
           Bank(b)' = After(Bank(b), f.filter_clear, b \in f.filter_write, regs.filter_word,
                            b \in f.filter_read)
  <2>1. /\ CircuitOK' /\ QuantizerOK' /\ regs' = regs /\ design' = design /\ rsp'.valid
        /\ In' = After(In, f.in_clear, f.in_write, regs.in_word, f.in_read)
        /\ \A b \in Banks :
             Bank(b)' = After(Bank(b), f.filter_clear, b \in f.filter_write, regs.filter_word,
                              b \in f.filter_read)
    BY <1>1, <1>2, <1>3, <1>5, AcceptStep
  <2> QED
    BY <1>5, <2>1, NoHurry
<1>7. DriverOK'
  <2>1. GoesTo("input", drv.group, drv.group, drv.pixel, 1)
    BY <1>4, <1>5 DEF GoesTo, Filling
  <2> QED
    BY <1>1, <1>6, <2>1, DriverGoesOn
<1>8. QueuesOK'
  <2>1. SameGroup
    BY <1>5 DEF SameGroup
  <2>2. In' = PixelWords(drv.k - 1)'
    <3>1. In' = <<>>
      BY <1>3, <1>6 DEF After
    <3>2. drv'.k - 1 = 0
      BY <1>5
    <3> QED
      BY <3>1, <3>2 DEF PixelWords
  <2>3. ASSUME design = "banked", NEW b \in Banks
        PROVE  Bank(b)' = FilterWords(b, bank_size(b))'
    <3>1. Bank(b)' = Bank(b)
      BY <1>3, <1>6 DEF After
    <3>2. Bank(b) = FilterWords(b, bank_size(b))
      BY <1>1, <1>2, <2>3 DEF QueuesOK
    <3>3. FilterWords(b, bank_size(b))' = FilterWords(b, bank_size(b))
      BY <2>1, GroupFrame DEF FilterWords
    <3> QED
      BY <3>1, <3>2, <3>3
  <2> QED
    BY <1>5, <1>6, <2>2, <2>3 DEF QueuesOK, At, Accumulating
<1>9. RegistersOK'
  BY <1>1, <1>2, <1>5, <1>6
     DEF RegistersOK, Accumulating, Steps, Configuring, Filling, At
<1>10. OutputsRight'
  BY <1>1, OutputsFrame
<1> QED
  BY <1>6, <1>7, <1>8, <1>9, <1>10 DEF GInv

\* SetInputVals: one word more of the pixel.
LEMMA SetInputStep ==
  ASSUME GInv,
         Issue("input", SetInputVals(InputWord(drv.layer, drv.pixel, drv.k)),
               NextWord(IF design = "banked" THEN "rewind" ELSE "clear_acc")),
         since' \in 0 .. MIN_GAP, UNCHANGED <<layers, stored>>
  PROVE  GInv'
<1>1. /\ DriverOK /\ RegistersOK /\ OutputsRight /\ QueuesOK /\ CircuitOK /\ TimingOK
      /\ QuantizerOK /\ regs \in RegisterValues
  BY DEF GInv, CircuitOK
<1> DEFINE w == InputWord(drv.layer, drv.pixel, drv.k)
           g == [regs EXCEPT !.in_word = w]
           f == [NoFlags EXCEPT !.in_write = TRUE]
           after == IF design = "banked" THEN "rewind" ELSE "clear_acc"
<1>2. drv.pc = "input" /\ Accept(f, g) /\ drv' = NextWord(after)
  BY DEF Issue, At, SetInputVals
<1>3. /\ drv.k \in 1 .. layer.words /\ layer.words \in Nat \ {0} /\ layer.words < DEPTH
      /\ drv.k - 1 \in 0 .. layer.words /\ drv.k + 1 - 1 = drv.k
      /\ drv.ch = drv.group
  BY <1>1, <1>2, DriverFields, ShapeFacts, SMT
<1>4. g \in RegisterValues /\ g.in_word = w /\ g.par = regs.par
  <2>1. w \in Words
    BY <1>1, <1>3, WordTypes
  <2> HIDE DEF w
  <2> QED
    BY <1>1, <2>1 DEF RegisterValues
<1>5. In = PixelWords(drv.k - 1) /\ Len(In) = drv.k - 1
  BY <1>1, <1>2, <1>3, PixelWordsType DEF QueuesOK, At
<1>6. /\ f \in Strobes /\ ~f.qnt_start /\ ~f.in_clear /\ f.in_write /\ ~f.in_read
      /\ ~f.filter_clear /\ f.filter_write = {} /\ f.filter_read = {}
  BY DEF Strobes, NoFlags
<1> HIDE DEF f, g
<1>7. StrobesFit(f)
  <2>1. Len(In) < DEPTH
    BY <1>3, <1>5, DepthAssumption, SMT
  <2> QED
    BY <1>6, <2>1 DEF StrobesFit, CanAct
<1>8. after \in {"rewind", "clear_acc"} /\ after \in Steps
        /\ (design = "streamed" => after = "clear_acc")
        /\ (design = "banked" => after = "rewind")
  BY DEF Steps, Accumulating
<1> HIDE DEF after
<1>9. /\ SameChannel /\ drv'.pixel = drv.pixel /\ drv'.pc \in {"input", after}
      /\ drv'.pc = "input" => drv'.k = drv.k + 1
      /\ drv'.pc # "input" => drv.k = layer.words /\ drv'.k = 1
      /\ \E k : GoesTo(drv'.pc, drv.group, drv.ch, drv.pixel, k)
      /\ drv'.layer = drv.layer
  <2>1. design = "streamed" => after \notin Filling \cup {"rewind"}
    BY <1>8 DEF Filling
  <2>2. \/ drv.k < layer.words /\ GoesTo(drv.pc, drv.group, drv.ch, drv.pixel, drv.k + 1)
        \/ drv.k = layer.words /\ GoesTo(after, drv.group, drv.ch, drv.pixel, 1)
    BY <1>1, <1>2, <1>3, <1>8, <2>1, NextWordGoes
  <2>3. CASE GoesTo(drv.pc, drv.group, drv.ch, drv.pixel, drv.k + 1)
    BY <1>2, <2>3 DEF GoesTo, SameChannel, SameGroup
  <2>4. CASE drv.k = layer.words /\ GoesTo(after, drv.group, drv.ch, drv.pixel, 1)
    BY <1>8, <2>4 DEF GoesTo, SameChannel, SameGroup
  <2> QED
    BY <2>2, <2>3, <2>4
<1>10. /\ CircuitOK' /\ QuantizerOK' /\ TimingOK' /\ regs' = g /\ design' = design
       /\ In' = After(In, f.in_clear, f.in_write, g.in_word, f.in_read)
       /\ \A b \in Banks :
            Bank(b)' = After(Bank(b), f.filter_clear, b \in f.filter_write, g.filter_word,
                             b \in f.filter_read)
  <2>1. drv'.pc # "store" /\ drv'.pc # "mac"
    BY <1>8, <1>9
  <2>2. /\ CircuitOK' /\ QuantizerOK' /\ regs' = g /\ design' = design /\ rsp'.valid
        /\ In' = After(In, f.in_clear, f.in_write, g.in_word, f.in_read)
        /\ \A b \in Banks :
             Bank(b)' = After(Bank(b), f.filter_clear, b \in f.filter_write, g.filter_word,
                              b \in f.filter_read)
    BY <1>1, <1>2, <1>4, <1>6, <1>7, <2>1, AcceptStep
  <2> QED
    BY <2>1, <2>2, NoHurry
<1>11. DriverOK'
  BY <1>1, <1>9, <1>10, DriverGoesOn
<1>12. QueuesOK'
  <2>1. layer' = layer /\ (\A b : bank_size(b)' = bank_size(b))
          /\ \A b, n : FilterWords(b, n)' = FilterWords(b, n)
    BY <1>9, GroupFrame DEF SameChannel
  <2>2. \A n : PixelWords(n)' = PixelWords(n)
    BY <1>9, PixelFrame
  <2>3. In' = PixelWords(drv.k)
    <3>1. In' = Append(In, w)
      BY <1>4, <1>6, <1>10 DEF After
    <3> QED
      BY <1>1, <1>3, <1>5, <3>1, PixelWordsNext
  <2>4. drv'.pc = "input" => In' = PixelWords(drv.k - 1)'
    <3>1. SUFFICES ASSUME drv'.pc = "input"
          PROVE  In' = PixelWords(drv.k - 1)'
      OBVIOUS
    <3>2. drv'.k - 1 = drv.k
      BY <1>3, <1>9, <3>1
    <3>3. PixelWords(drv.k - 1)' = PixelWords(drv.k)
      BY <2>2, <3>2 DEF PixelWords
    <3> QED
      BY <2>3, <3>3
  <2>5. drv'.pc # "input" => In' = PixelWords(layer.words)'
    BY <1>9, <2>1, <2>2, <2>3 DEF PixelWords
  <2>6. drv'.pc # "input" => In' = Turned(PixelWords(layer.words), words_done)'
    <3>1. SUFFICES ASSUME drv'.pc # "input"
          PROVE  In' = Turned(PixelWords(layer.words), words_done)'
      OBVIOUS
    <3>2. words_done' = 0
      BY <1>8, <1>9, <3>1 DEF words_done
    <3>3. PixelWords(layer.words)' = PixelWords(layer.words)
      BY <2>1, <2>2 DEF PixelWords
    <3> QED
      BY <1>1, <2>5, <3>1, <3>2, <3>3, QueueTurns DEF Turned
  <2>7. ASSUME design = "banked", NEW b \in Banks
        PROVE  Bank(b)' = FilterWords(b, bank_size(b))'
    <3>1. Bank(b)' = Bank(b)
      BY <1>6, <1>10 DEF After
    <3>2. Bank(b) = FilterWords(b, bank_size(b))
      BY <1>1, <1>2, <2>7 DEF QueuesOK
    <3>3. FilterWords(b, bank_size(b))' = FilterWords(b, bank_size(b))
      BY <2>1 DEF FilterWords
    <3> QED
      BY <3>1, <3>2, <3>3
  <2> QED
    BY <1>8, <1>9, <1>10, <2>4, <2>5, <2>6, <2>7 DEF QueuesOK, At, Accumulating
<1>13. RegistersOK'
  BY <1>1, <1>2, <1>4, <1>8, <1>9, <1>10
     DEF RegistersOK, Accumulating, Steps, Configuring, Filling, At, DriverOK
<1>14. OutputsRight'
  BY <1>1, OutputsFrame
<1> QED
  BY <1>10, <1>11, <1>12, <1>13, <1>14 DEF GInv

\* SetFilterVals: one word more of the channel, in its bank.
LEMMA SetFilterStep ==
  ASSUME GInv,
         Issue("filter", SetFilterVals(FilterWord(drv.layer, drv.ch, drv.k)), NextWord("next_set")),
         since' \in 0 .. MIN_GAP, UNCHANGED <<layers, stored>>
  PROVE  GInv'
<1>1. /\ DriverOK /\ RegistersOK /\ OutputsRight /\ QueuesOK /\ CircuitOK /\ TimingOK
      /\ QuantizerOK /\ regs \in RegisterValues
  BY DEF GInv, CircuitOK
<1> DEFINE w == FilterWord(drv.layer, drv.ch, drv.k)
           g == [regs EXCEPT !.filter_word = w]
           f == [NoFlags EXCEPT !.filter_write = {regs.wr_idx}]
<1>2. drv.pc = "filter" /\ Accept(f, g) /\ drv' = NextWord("next_set") /\ design = "banked"
  BY DEF Issue, At, SetFilterVals
<1>3. /\ drv.k \in 1 .. layer.words /\ layer.words \in Nat \ {0}
      /\ drv.k + 1 - 1 = drv.k /\ drv.k - 1 < layer.words /\ drv.k - 1 \in Nat
  BY <1>1, <1>2, DriverFields, ShapeFacts, SMT
<1>4. g \in RegisterValues /\ g.filter_word = w /\ g.par = regs.par /\ g.wr_idx = regs.wr_idx
  <2>1. w \in Words
    <3>1. drv.ch \in 1 .. layer.channels
      BY <1>1, GroupFacts, ShapeFacts, SMT
    <3> QED
      BY <1>1, <1>3, <3>1, WordTypes
  <2> HIDE DEF w
  <2> QED
    BY <1>1, <2>1 DEF RegisterValues
<1>5. words_done = drv.k - 1 /\ regs.wr_idx = bank /\ bank \in Banks
        /\ \A b \in Banks : Bank(b) = FilterWords(b, bank_done(b))
  <2>1. words_done = drv.k - 1 /\ regs.wr_idx = bank
    BY <1>1, <1>2 DEF words_done, RegistersOK
  <2>2. bank \in Banks
    <3>1. before \in Nat
      BY <1>1, GroupFacts
    <3> QED
      BY <3>1, ShareType, BanksAssumption, Division DEF bank, Banks
  <2> QED
    BY <1>1, <1>2, <2>1, <2>2 DEF QueuesOK
<1>6. /\ f \in Strobes /\ ~f.qnt_start /\ ~f.in_clear /\ ~f.in_write /\ ~f.in_read
      /\ ~f.filter_clear /\ f.filter_write = {bank} /\ f.filter_read = {}
  BY <1>5 DEF Strobes, NoFlags
<1> HIDE DEF f, g
<1>7. bank_done(bank) \in Nat /\ bank_done(bank) + 1 \in 1 .. bank_size(bank)
        /\ bank_size(bank) < DEPTH /\ bank_size(bank) \in Nat
        /\ Len(Bank(bank)) = bank_done(bank)
  <2>1. bank_done(bank) \in 0 .. bank_size(bank) /\ bank_done(bank) + 1 \in 1 .. bank_size(bank)
    BY <1>1, <1>3, <1>5, BankProgress
  <2>2. bank_size(bank) < DEPTH /\ bank_size(bank) \in Nat
    BY <1>1, <1>5, BankSizes
  <2>3. Len(FilterWords(bank, bank_done(bank))) = bank_done(bank)
    BY <1>1, <1>5, <2>1, FilterWordsType
  <2> QED
    BY <1>5, <2>1, <2>2, <2>3, SMT
<1>8. StrobesFit(f)
  <2>1. Len(Bank(bank)) < DEPTH
    BY <1>7, DepthAssumption, SMT
  <2> QED
    BY <1>6, <2>1 DEF StrobesFit, CanAct
<1>9. /\ SameChannel /\ drv'.pixel = drv.pixel /\ drv'.pc \in {"filter", "next_set"}
      /\ drv'.pc = "filter" => drv'.k = drv.k + 1
      /\ drv'.pc = "next_set" => drv.k = layer.words
      /\ \E pc, k : GoesTo(pc, drv.group, drv.ch, drv.pixel, k)
      /\ drv'.layer = drv.layer
  <2>1. design = "streamed" => "next_set" \notin Filling \cup {"rewind"}
    BY <1>2
  <2>2. /\ "next_set" \in Steps
        /\ "next_set" \notin Configuring \cup {"clear_filter", "input", "rewind"}
    BY DEF Steps, Filling, Configuring
  <2>3. \/ drv.k < layer.words /\ GoesTo(drv.pc, drv.group, drv.ch, drv.pixel, drv.k + 1)
        \/ drv.k = layer.words /\ GoesTo("next_set", drv.group, drv.ch, drv.pixel, 1)
    BY <1>1, <1>2, <2>1, <2>2, NextWordGoes
  <2>4. CASE GoesTo(drv.pc, drv.group, drv.ch, drv.pixel, drv.k + 1)
    BY <1>2, <2>4 DEF GoesTo, SameChannel, SameGroup
  <2>5. CASE drv.k = layer.words /\ GoesTo("next_set", drv.group, drv.ch, drv.pixel, 1)
    BY <2>5 DEF GoesTo, SameChannel, SameGroup
  <2> QED
    BY <2>3, <2>4, <2>5
<1>10. /\ CircuitOK' /\ QuantizerOK' /\ TimingOK' /\ regs' = g /\ design' = design
       /\ \A b \in Banks :
            Bank(b)' = After(Bank(b), f.filter_clear, b \in f.filter_write, g.filter_word,
                             b \in f.filter_read)
  <2>1. drv'.pc # "store" /\ drv'.pc # "mac"
    BY <1>9
  <2>2. /\ CircuitOK' /\ QuantizerOK' /\ regs' = g /\ design' = design /\ rsp'.valid
        /\ \A b \in Banks :
             Bank(b)' = After(Bank(b), f.filter_clear, b \in f.filter_write, g.filter_word,
                              b \in f.filter_read)
    BY <1>1, <1>2, <1>4, <1>6, <1>8, <2>1, AcceptStep
  <2> QED
    BY <2>1, <2>2, NoHurry
<1>11. DriverOK'
  BY <1>1, <1>9, <1>10, DriverGoesOn
<1>12. QueuesOK'
  <2>1. \A b, n : FilterWords(b, n)' = FilterWords(b, n)
    BY <1>9, GroupFrame DEF SameChannel
  <2>2. words_done' = drv.k
    <3>1. layer' = layer
      BY <1>9, GroupFrame DEF SameChannel
    <3> QED
      BY <1>3, <1>9, <3>1 DEF words_done
  <2>3. ASSUME NEW b \in Banks
        PROVE  Bank(b)' = FilterWords(b, bank_done(b))'
    <3>1. bank_done(b)' = Share(b, before) * layer.words + (IF b = bank THEN drv.k ELSE 0)
            /\ bank_done(b) = Share(b, before) * layer.words + (IF b = bank THEN drv.k - 1 ELSE 0)
      BY <1>5, <1>9, <2>2, DoneFrame DEF bank_done
    <3>2. FilterWords(b, bank_done(b))' = FilterWords(b, bank_done(b)')
      BY <2>1 DEF FilterWords
    <3>3. CASE b = bank
      <4> DEFINE x == Share(b, before) * layer.words
      <4>1. bank_done(b)' = bank_done(b) + 1
        <5>1. x \in Nat
          BY <1>1, <3>3, BankSizes, ShapeFacts, SMT
        <5>2. bank_done(b)' = x + drv.k /\ bank_done(b) = x + (drv.k - 1)
          BY <3>1, <3>3
        <5> HIDE DEF x
        <5> QED
          BY <1>3, <5>1, <5>2, SMT
      <4>2. Bank(b)' = Append(Bank(b), w)
        BY <1>4, <1>6, <1>10, <3>3 DEF After
      <4>3. Bank(b) = FilterWords(b, bank_done(b))
        BY <1>5
      <4>4. w = FilterWordAt(b, bank_done(b) + 1)
        BY <1>1, <1>5, <3>3, FilterWordNext
      <4>5. Append(FilterWords(b, bank_done(b)), FilterWordAt(b, bank_done(b) + 1))
              = FilterWords(b, bank_done(b) + 1)
        BY <1>1, <1>7, <3>3, FilterWordsNext
      <4> QED
        BY <3>2, <4>1, <4>2, <4>3, <4>4, <4>5
    <3>4. CASE b # bank
      <4>1. bank_done(b)' = bank_done(b)
        BY <3>1, <3>4
      <4>2. Bank(b)' = Bank(b)
        BY <1>6, <1>10, <3>4 DEF After
      <4> QED
        BY <1>5, <3>2, <4>1, <4>2
    <3> QED
      BY <3>3, <3>4
  <2> QED
    BY <1>9, <2>3 DEF QueuesOK, At, Accumulating
<1>13. RegistersOK'
  <2>1. bank' = bank
    BY <1>9, ChannelFrame
  <2> QED
    BY <1>1, <1>2, <1>4, <1>5, <1>9, <1>10, <2>1
       DEF RegistersOK, Accumulating, Steps, Configuring, Filling, At
<1>14. OutputsRight'
  BY <1>1, OutputsFrame
<1> QED
  BY <1>10, <1>11, <1>12, <1>13, <1>14 DEF GInv

\* NextFilterSet: a channel's words are complete.
LEMMA NextSetStep ==
  ASSUME GInv,
         Issue("next_set", NextFilterSet,
               IF drv.ch < group_end THEN [drv EXCEPT !.pc = "filter", !.ch = @ + 1]
               ELSE [drv EXCEPT !.pc = "clear_input", !.pixel = 1]),
         since' \in 0 .. MIN_GAP, UNCHANGED <<layers, stored>>
  PROVE  GInv'
<1>1. /\ DriverOK /\ RegistersOK /\ OutputsRight /\ QueuesOK /\ CircuitOK /\ TimingOK
      /\ QuantizerOK /\ regs \in RegisterValues
  BY DEF GInv, CircuitOK
<1> DEFINE i == (regs.wr_idx + 1) % FILTER_BANKS
           g == [regs EXCEPT !.wr_idx = i]
<1>2. /\ drv.pc = "next_set" /\ Accept(NoFlags, g) /\ design = "banked"
      /\ drv' = IF drv.ch < group_end THEN [drv EXCEPT !.pc = "filter", !.ch = @ + 1]
                ELSE [drv EXCEPT !.pc = "clear_input", !.pixel = 1]
  BY DEF Issue, At, NextFilterSet
<1>3. /\ before \in Nat /\ bank \in Banks /\ regs.wr_idx = bank /\ i \in Banks
      /\ i = (before + 1) % FILTER_BANKS
  <2>1. before \in Nat /\ regs.wr_idx = bank
    BY <1>1, <1>2, GroupFacts DEF RegistersOK
  <2>2. 0 \in Banks /\ before + 1 \in Nat
    BY <2>1, BanksAssumption, SMT DEF Banks
  <2>3. bank \in Banks /\ (before + 1) % FILTER_BANKS \in Banks
          /\ (before + 1) % FILTER_BANKS = (bank + 1) % FILTER_BANKS
    BY <2>1, <2>2, ShareType, ShareNext DEF bank
  <2> QED
    BY <2>1, <2>3
<1> HIDE DEF i
<1>4. g \in RegisterValues /\ g.wr_idx = i /\ g.par = regs.par
  BY <1>1, <1>3, RegisterFields
<1> HIDE DEF g
<1>5. /\ drv = [pc |-> drv.pc, layer |-> drv.layer, group |-> drv.group, ch |-> drv.ch,
                pixel |-> drv.pixel, k |-> drv.k]
      /\ drv.k = 1
      /\ drv.group \in 1 .. layer.channels /\ drv.pixel \in 1 .. last_pixel
      /\ 1 \in 1 .. layer.words /\ 1 \in 1 .. last_pixel
      /\ drv.ch \in drv.group .. Minimum(drv.group + layer.group - 1, layer.channels)
  BY <1>1, <1>2, DriverFields
<1>6. /\ drv'.pc \in {"filter", "clear_input"} /\ drv'.k = 1 /\ SameGroup /\ drv'.layer = drv.layer
      /\ drv'.pc = "filter" => drv.ch < group_end /\ drv'.ch = drv.ch + 1
      /\ drv'.pc = "clear_input" => ~(drv.ch < group_end)
      /\ \E pc, ch, pixel : GoesTo(pc, drv.group, ch, pixel, 1)
  <2>1. CASE drv.ch < group_end
    <3>1. drv' = [pc |-> "filter", layer |-> drv.layer, group |-> drv.group, ch |-> drv.ch + 1,
                  pixel |-> drv.pixel, k |-> 1]
      BY <1>2, <1>5, <2>1
    <3>2. drv.ch + 1 \in drv.group .. Minimum(drv.group + layer.group - 1, layer.channels)
      <4>1. group_end = Minimum(drv.group + layer.group - 1, layer.channels) /\ group_end \in Nat
              /\ drv.ch \in Nat /\ drv.group \in Nat
        BY <1>1, GroupFacts DEF group_end
      <4>2. drv.ch \in drv.group .. group_end
        BY <1>1 DEF DriverOK
      <4> QED
        BY <2>1, <4>1, <4>2, SMT
    <3>3. GoesTo("filter", drv.group, drv.ch + 1, drv.pixel, 1)
      BY <1>2, <1>5, <3>1, <3>2 DEF GoesTo, Steps, Filling, Configuring
    <3> QED
      BY <2>1, <3>1, <3>3 DEF SameGroup
  <2>2. CASE ~(drv.ch < group_end)
    <3>1. drv' = [pc |-> "clear_input", layer |-> drv.layer, group |-> drv.group, ch |-> drv.ch,
                  pixel |-> 1, k |-> 1]
      BY <1>2, <1>5, <2>2
    <3>2. GoesTo("clear_input", drv.group, drv.ch, 1, 1)
      BY <1>2, <1>5, <3>1 DEF GoesTo, Steps, Filling, Configuring
    <3> QED
      BY <2>2, <3>1, <3>2 DEF SameGroup
  <2> QED
    BY <2>1, <2>2
<1>7. /\ CircuitOK' /\ QuantizerOK' /\ TimingOK' /\ design' = design
      /\ In' = In /\ \A b \in Banks : Bank(b)' = Bank(b)
      /\ regs' = g /\ layers' = layers
  <2>1. drv'.pc # "store" /\ drv'.pc # "mac"
    BY <1>6
  <2> QED
    BY <1>2, <1>4, <2>1, RegisterStep
<1>8. DriverOK'
  BY <1>1, <1>6, <1>7, DriverGoesOn
<1>9. before' = before + 1 \/ drv'.pc = "clear_input"
  BY <1>1, <1>6, GroupFacts DEF before, SameGroup
<1>10. QueuesOK'
  <2>1. /\ \A b, n : FilterWords(b, n)' = FilterWords(b, n)
        /\ \A b : bank_size(b)' = bank_size(b)
        /\ layer' = layer
    BY <1>6, GroupFrame
  <2>2. ASSUME NEW b \in Banks
        PROVE  Bank(b)' = FilterWords(b, Share(b, before + 1) * layer.words)
    <3>1. Bank(b) = FilterWords(b, bank_done(b))
      BY <1>1, <1>2 DEF QueuesOK
    <3>2. bank_done(b) = Share(b, before + 1) * layer.words
      BY <1>1, <1>2, BankProgress DEF words_done
    <3> QED
      BY <1>7, <3>1, <3>2
  <2>3. ASSUME drv'.pc = "filter", NEW b \in Banks
        PROVE  Bank(b)' = FilterWords(b, bank_done(b))'
    <3>1. words_done' = 0 /\ before' = before + 1
      BY <1>6, <1>9, <2>3 DEF words_done
    <3>2. bank_done(b)' = Share(b, before + 1) * layer.words + 0
      BY <2>1, <3>1 DEF bank_done, Share
    <3>3. Share(b, before + 1) \in Nat
      BY <1>3, ShareType
    <3>4. bank_done(b)' = Share(b, before + 1) * layer.words
      BY <1>1, <3>2, <3>3, ShapeFacts, SMT
    <3> QED
      BY <2>1, <2>2, <3>4 DEF FilterWords
  <2>4. ASSUME drv'.pc = "clear_input", NEW b \in Banks
        PROVE  Bank(b)' = FilterWords(b, bank_size(b))'
    <3>1. before + 1 = group_size
      <4>1. drv.ch = group_end
        BY <1>1, <1>6, <2>4, GroupFacts, SMT
      <4> QED
        BY <1>1, <4>1, GroupFacts
    <3>2. bank_size(b) = Share(b, before + 1) * layer.words
      BY <1>1, <3>1, BankSizes
    <3> QED
      BY <2>1, <2>2, <3>2 DEF FilterWords
  <2> QED
    BY <1>6, <2>3, <2>4 DEF QueuesOK, At, Accumulating
<1>11. RegistersOK'
  <2>1. drv'.pc = "filter" => regs'.wr_idx = bank'
    BY <1>3, <1>4, <1>6, <1>7, <1>9 DEF bank
  <2> QED
    BY <1>1, <1>2, <1>4, <1>6, <1>7, <2>1
       DEF RegistersOK, Accumulating, Steps, Configuring, Filling, At
<1>12. OutputsRight'
  BY <1>1, OutputsFrame
<1> QED
  BY <1>7, <1>8, <1>10, <1>11, <1>12 DEF GInv

\* In a cycle without strobes the queues are what the buffers hold.
LEMMA QuietQueues ==
  ASSUME CircuitOK, flags = NoFlags
  PROVE  /\ Contents(inputs) = In
         /\ \A b \in Banks : Contents(banks[b]) = Bank(b)
<1>1. Zero \in Words /\ regs.in_word \in Words /\ regs.filter_word \in Words
  BY DataAssumption DEF CircuitOK, RegisterValues
<1>2. /\ flags.in_clear = FALSE /\ flags.in_write = FALSE /\ flags.in_read = FALSE
      /\ flags.filter_clear = FALSE
      /\ \A b \in Banks : (b \in flags.filter_write) = FALSE /\ (b \in flags.filter_read) = FALSE
  BY DEF NoFlags
<1>3. ASSUME NEW c, Valid(c), NEW d \in Words
      PROVE  Contents(BufferEdge(c, FALSE, FALSE, d, FALSE)) = Contents(c)
  <2>1. CanAct(Contents(c), FALSE, FALSE, FALSE)
    BY DEF CanAct
  <2>2. Contents(BufferEdge(c, FALSE, FALSE, d, FALSE)) = After(Contents(c), FALSE, FALSE, d, FALSE)
    BY <1>1, <1>3, <2>1, BufferStep
  <2> QED
    BY <2>2 DEF After
<1>4. Contents(inputs) = In
  <2>1. next_inputs = BufferEdge(inputs, FALSE, FALSE, regs.in_word, FALSE)
    BY <1>2 DEF next_inputs
  <2> QED
    BY <1>1, <1>3, <2>1 DEF In, CircuitOK
<1>5. ASSUME NEW b \in Banks
      PROVE  Contents(banks[b]) = Bank(b)
  <2>1. next_banks[b] = BufferEdge(banks[b], FALSE, FALSE, regs.filter_word, FALSE)
    BY <1>2 DEF next_banks
  <2> QED
    BY <1>1, <1>3, <2>1 DEF Bank, CircuitOK
<1> QED
  BY <1>4, <1>5

\* What MAC_ON_BUFFER finds: the words of the driver's place in its loops.
LEMMA MacFinds ==
  ASSUME GInv, drv.pc = "mac", since >= MIN_GAP, cmd_ready
  PROVE  /\ flags = NoFlags
         /\ inputs.read_data = InputWord(drv.layer, drv.pixel, drv.k)
         /\ In # <<>> /\ Head(In) = inputs.read_data /\ Len(In) > 0 /\ Len(In) < DEPTH
         /\ Append(Tail(In), Head(In)) = Turned(PixelWords(layer.words), drv.k)
         /\ offset_applied = drv.layer /\ offset_applied = regs.par["mac_offset"]
         /\ design = "banked" =>
              /\ regs.rd_idx = bank /\ bank \in Banks
              /\ banks[bank].read_data = FilterWord(drv.layer, drv.ch, drv.k)
              /\ Bank(bank) # <<>> /\ Head(Bank(bank)) = banks[bank].read_data
              /\ Len(Bank(bank)) > 0 /\ Len(Bank(bank)) < DEPTH
              /\ Append(Tail(Bank(bank)), Head(Bank(bank)))
                   = Turned(FilterWords(bank, bank_size(bank)), bank_done(bank) + 1)
<1>1. DriverOK /\ RegistersOK /\ QueuesOK /\ CircuitOK /\ TimingOK
  BY DEF GInv
<1>2. /\ drv.k \in 1 .. layer.words /\ layer.words \in Nat \ {0} /\ layer.words < DEPTH
      /\ drv.k - 1 \in 0 .. layer.words - 1 /\ drv.k - 1 + 1 = drv.k /\ drv.k - 1 < layer.words
      /\ layer.words \in 0 .. layer.words /\ words_done = drv.k - 1
  <2>1. drv.k \in 1 .. layer.words /\ layer.words \in Nat \ {0} /\ layer.words < DEPTH
    BY <1>1, DriverFields, ShapeFacts
  <2>2. words_done = drv.k - 1
    BY DEF words_done
  <2> QED
    BY <2>1, <2>2, SMT
<1>3. since >= 3
  BY <1>1, GapAssumption, BoundsAssumption, SMT DEF DriverOK
<1>4. flags = NoFlags /\ Fresh(inputs) /\ (\A b \in Banks : Fresh(banks[b]))
        /\ offset_applied = regs.par["mac_offset"]
  BY <1>1, <1>3 DEF TimingOK, At
<1>5. Contents(inputs) = In /\ \A b \in Banks : Contents(banks[b]) = Bank(b)
  BY <1>1, <1>4, QuietQueues
<1>6. offset_applied = drv.layer
  BY <1>1, <1>4 DEF RegistersOK, Steps, Accumulating
<1>7. /\ inputs.read_data = InputWord(drv.layer, drv.pixel, drv.k)
      /\ In # <<>> /\ Head(In) = inputs.read_data /\ Len(In) = layer.words
      /\ Append(Tail(In), Head(In)) = Turned(PixelWords(layer.words), drv.k)
  <2> DEFINE p == PixelWords(layer.words)
  <2>1. p \in Seq(Words) /\ Len(p) = layer.words
    BY <1>1, <1>2, PixelWordsType
  <2>2. In = Turned(p, drv.k - 1)
    BY <1>1, <1>2 DEF QueuesOK, Accumulating
  <2>3. p[drv.k] = InputWord(drv.layer, drv.pixel, drv.k)
    BY <1>2 DEF PixelWords
  <2> HIDE DEF p
  <2>4. /\ Turned(p, drv.k - 1) # <<>> /\ Head(Turned(p, drv.k - 1)) = p[drv.k]
        /\ Append(Tail(Turned(p, drv.k - 1)), Head(Turned(p, drv.k - 1))) = Turned(p, drv.k)
    BY <1>2, <2>1, TurnedNext
  <2>5. Len(In) = layer.words
    <3>1. drv.k - 1 \in 0 .. Len(p)
      BY <1>2, <2>1, SMT
    <3> QED
      BY <2>1, <2>2, <3>1, TurnedType
  <2>6. inputs.read_data = Head(In)
    BY <1>1, <1>4, <1>5, <2>2, <2>4, FreshIsHead DEF CircuitOK
  <2> QED
    BY <2>2, <2>3, <2>4, <2>5, <2>6 DEF p
<1>8. ASSUME design = "banked"
      PROVE  /\ regs.rd_idx = bank /\ bank \in Banks
             /\ banks[bank].read_data = FilterWord(drv.layer, drv.ch, drv.k)
             /\ Bank(bank) # <<>> /\ Head(Bank(bank)) = banks[bank].read_data
             /\ Len(Bank(bank)) > 0 /\ Len(Bank(bank)) < DEPTH
             /\ Append(Tail(Bank(bank)), Head(Bank(bank)))
                  = Turned(FilterWords(bank, bank_size(bank)), bank_done(bank) + 1)
  <2>1. regs.rd_idx = bank
    BY <1>1, <1>8 DEF RegistersOK, Accumulating, At
  <2>2. bank \in Banks
    BY <1>1, <2>1 DEF CircuitOK, RegisterValues
  <2> DEFINE q == FilterWords(bank, bank_size(bank))
             n == bank_done(bank)
             z == bank_size(bank)
  <2>3. n \in 0 .. z /\ n + 1 \in 1 .. z /\ z \in Nat /\ z < DEPTH
    BY <1>1, <1>2, <2>2, BankProgress, BankSizes
  <2>4. Bank(bank) = Turned(q, n)
    BY <1>1, <1>8, <2>2 DEF QueuesOK, Accumulating
  <2>5. q[n + 1] = FilterWord(drv.layer, drv.ch, drv.k)
    <3>1. n \in Nat
      BY <2>3
    <3>2. FilterWordAt(bank, n + 1) = FilterWord(drv.layer, drv.ch, drv.k)
      BY <1>1, <1>2, <2>2, FilterWordNext
    <3> QED
      BY <1>1, <2>2, <2>3, <3>1, <3>2, FilterWordsNext
  <2>6. q \in Seq(Words) /\ Len(q) = z
    <3>1. z \in 0 .. z
      BY <2>3, SMT
    <3> QED
      BY <1>1, <2>2, <3>1, FilterWordsType
  <2> HIDE DEF q, n, z
  <2>7. n \in 0 .. Len(q) - 1 /\ n \in 0 .. Len(q) /\ Len(q) > 0
    BY <2>3, <2>6, SMT
  <2>8. /\ Turned(q, n) # <<>> /\ Head(Turned(q, n)) = q[n + 1]
        /\ Append(Tail(Turned(q, n)), Head(Turned(q, n))) = Turned(q, n + 1)
    BY <2>6, <2>7, TurnedNext
  <2>9. Len(Turned(q, n)) = z /\ Len(q) = z
    BY <2>6, <2>7, TurnedType
  <2>10. banks[bank].read_data = Head(Bank(bank))
    BY <1>1, <1>4, <1>5, <2>2, <2>4, <2>8, FreshIsHead DEF CircuitOK
  <2> QED
    BY <2>1, <2>2, <2>3, <2>4, <2>5, <2>7, <2>8, <2>9, <2>10 DEF q, n, z
<1> QED
  BY <1>2, <1>4, <1>6, <1>7, <1>8

\* MacOnBuffer: every queue in use goes on by one word, the sum by one product.
LEMMA MacStep ==
  ASSUME GInv, drv.pc = "mac", since >= MIN_GAP, since' = 1, drv' = NextWord("bias"),
         NEW f \in Strobes, NEW g \in RegisterValues, Accept(f, g),
         ~f.in_clear, f.in_write, f.in_read, ~f.filter_clear, ~f.qnt_start,
         f.filter_read = IF design = "banked" THEN {bank} ELSE {},
         f.filter_write = f.filter_read,
         g.acc = Append(regs.acc, ProductOf(drv.k)),
         g.in_word = InputWord(drv.layer, drv.pixel, drv.k),
         design = "banked" => g.filter_word = FilterWord(drv.layer, drv.ch, drv.k),
         g.par = regs.par, g.rd_idx = regs.rd_idx,
         UNCHANGED <<layers, stored>>
  PROVE  GInv'
<1>1. /\ DriverOK /\ RegistersOK /\ OutputsRight /\ QueuesOK /\ CircuitOK /\ TimingOK
      /\ QuantizerOK /\ cmd_ready
  BY DEF GInv, Accept
<1>2. /\ In # <<>> /\ Head(In) = InputWord(drv.layer, drv.pixel, drv.k) /\ Len(In) > 0
      /\ Len(In) < DEPTH
      /\ Append(Tail(In), Head(In)) = Turned(PixelWords(layer.words), drv.k)
      /\ design = "banked" =>
           /\ regs.rd_idx = bank /\ bank \in Banks
           /\ Head(Bank(bank)) = FilterWord(drv.layer, drv.ch, drv.k)
           /\ Len(Bank(bank)) > 0 /\ Len(Bank(bank)) < DEPTH
           /\ Append(Tail(Bank(bank)), Head(Bank(bank)))
                = Turned(FilterWords(bank, bank_size(bank)), bank_done(bank) + 1)
  BY <1>1, MacFinds
<1>3. /\ drv.k \in 1 .. layer.words /\ layer.words \in Nat \ {0} /\ drv.k + 1 - 1 = drv.k
      /\ words_done = drv.k - 1
  <2>1. drv.k \in 1 .. layer.words /\ layer.words \in Nat \ {0}
    BY <1>1, DriverFields, ShapeFacts
  <2>2. words_done = drv.k - 1
    BY DEF words_done
  <2> QED
    BY <2>1, <2>2, SMT
<1>4. StrobesFit(f)
  BY <1>2 DEF StrobesFit, CanAct
<1>5. /\ SameChannel /\ drv'.pixel = drv.pixel /\ drv'.pc \in {"mac", "bias"}
      /\ drv'.pc = "mac" => drv'.k = drv.k + 1
      /\ drv'.pc = "bias" => drv.k = layer.words
      /\ \E pc, k : GoesTo(pc, drv.group, drv.ch, drv.pixel, k)
      /\ drv'.layer = drv.layer /\ drv'.ch = drv.ch
  <2>1. "bias" \in Steps /\ "bias" \notin Configuring \cup {"clear_filter", "input", "rewind"}
          /\ "bias" \notin Filling \cup {"rewind"}
    BY DEF Steps, Filling, Configuring, Accumulating
  <2>2. \/ drv.k < layer.words /\ GoesTo(drv.pc, drv.group, drv.ch, drv.pixel, drv.k + 1)
        \/ drv.k = layer.words /\ GoesTo("bias", drv.group, drv.ch, drv.pixel, 1)
    BY <1>1, <2>1, NextWordGoes
  <2>3. CASE GoesTo(drv.pc, drv.group, drv.ch, drv.pixel, drv.k + 1)
    BY <2>3 DEF GoesTo, SameChannel, SameGroup
  <2>4. CASE drv.k = layer.words /\ GoesTo("bias", drv.group, drv.ch, drv.pixel, 1)
    BY <2>4 DEF GoesTo, SameChannel, SameGroup
  <2> QED
    BY <2>2, <2>3, <2>4
<1>6. /\ CircuitOK' /\ QuantizerOK'
      /\ In' = After(In, f.in_clear, f.in_write, g.in_word, f.in_read)
      /\ \A b \in Banks :
           Bank(b)' = After(Bank(b), f.filter_clear, b \in f.filter_write, g.filter_word,
                            b \in f.filter_read)
      /\ flags' = f /\ regs' = g /\ design' = design
      /\ rsp'.valid /\ ~rsp'.pending
      /\ offset_applied' = regs.par["mac_offset"]
  BY <1>1, <1>4, <1>5, AcceptStep
<1>7. DriverOK'
  <2>1. since' \in 0 .. MIN_GAP
    BY <1>1, AgedType
  <2> QED
    BY <1>1, <1>5, <1>6, <2>1, DriverGoesOn
<1>8. TimingOK'
  BY <1>6 DEF TimingOK, cmd_ready, At
<1>9. /\ layer' = layer /\ (\A b : bank_size(b)' = bank_size(b))
      /\ \A b, n : FilterWords(b, n)' = FilterWords(b, n)
  BY <1>5, GroupFrame DEF SameChannel
<1>10. words_done' = drv.k
  <2>1. CASE drv'.pc = "mac"
    <3>1. words_done' = drv'.k - 1
      BY <2>1 DEF words_done
    <3> QED
      BY <1>3, <1>5, <2>1, <3>1
  <2>2. CASE drv'.pc = "bias"
    BY <1>5, <1>9, <2>2 DEF words_done
  <2> QED
    BY <1>5, <2>1, <2>2
<1>11. QueuesOK'
  <2>1. \A n : PixelWords(n)' = PixelWords(n)
    BY <1>5, PixelFrame
  <2>2. In' = Turned(PixelWords(layer.words), words_done)'
    <3>1. In' = Append(Tail(In), Head(In))
      BY <1>2, <1>6 DEF After
    <3>2. PixelWords(layer.words)' = PixelWords(layer.words)
      BY <1>9, <2>1 DEF PixelWords
    <3> QED
      BY <1>2, <1>10, <3>1, <3>2 DEF Turned
  <2>3. ASSUME design = "banked", NEW b \in Banks
        PROVE  Bank(b)' = Turned(FilterWords(b, bank_size(b)), bank_done(b))'
    <3>1. bank_done(b)' = Share(b, before) * layer.words + (IF b = bank THEN drv.k ELSE 0)
            /\ bank_done(b) = Share(b, before) * layer.words + (IF b = bank THEN drv.k - 1 ELSE 0)
      BY <1>3, <1>5, <1>10, DoneFrame DEF bank_done
    <3>2. FilterWords(b, bank_size(b))' = FilterWords(b, bank_size(b))
      BY <1>9 DEF FilterWords
    <3>3. CASE b = bank
      <4> DEFINE x == Share(b, before) * layer.words
      <4>1. bank_done(b)' = bank_done(b) + 1
        <5>1. x \in Nat
          BY <1>1, <1>3, BankSizes, SMT
        <5>2. bank_done(b)' = x + drv.k /\ bank_done(b) = x + (drv.k - 1)
          BY <3>1, <3>3
        <5> HIDE DEF x
        <5> QED
          BY <1>3, <5>1, <5>2, SMT
      <4>2. Bank(b)' = Append(Tail(Bank(b)), Head(Bank(b)))
        BY <1>2, <1>6, <2>3, <3>3 DEF After
      <4> QED
        BY <1>2, <2>3, <3>2, <3>3, <4>1, <4>2 DEF Turned
    <3>4. CASE b # bank
      <4>1. bank_done(b)' = bank_done(b)
        BY <3>1, <3>4
      <4>2. Bank(b)' = Bank(b)
        BY <1>6, <2>3, <3>4 DEF After
      <4>3. Bank(b) = Turned(FilterWords(b, bank_size(b)), bank_done(b))
        BY <1>1, <2>3 DEF QueuesOK, Accumulating
      <4> QED
        BY <3>2, <4>1, <4>2, <4>3 DEF Turned
    <3> QED
      BY <3>3, <3>4
  <2> QED
    BY <1>5, <1>6, <2>2, <2>3 DEF QueuesOK, At
<1>12. RegistersOK'
  <2>1. bank' = bank
    BY <1>5, ChannelFrame
  <2>2. regs'.acc = Products(words_done)'
    <3>1. regs.acc = Products(drv.k - 1)
      BY <1>1, <1>3 DEF RegistersOK, Accumulating
    <3>2. regs'.acc = Products(drv.k)
      BY <1>1, <1>3, <1>6, <3>1, ProductsNext
    <3>3. \A n : Products(n)' = Products(n)
      BY <1>5, ProductsFrame
    <3> QED
      BY <1>10, <3>2, <3>3 DEF Products
  <2> QED
    BY <1>1, <1>5, <1>6, <2>1, <2>2
       DEF RegistersOK, Accumulating, Steps, Configuring, Filling, At
<1>13. OutputsRight'
  BY <1>1, OutputsFrame
<1> QED
  BY <1>6, <1>7, <1>8, <1>11, <1>12, <1>13 DEF GInv

\* ... with filter words from a bank or from the command.
LEMMA MacOnBufferStep ==
  ASSUME GInv, since >= MIN_GAP, since' = 1, UNCHANGED <<layers, stored>>,
         \/ Issue("mac", MacOnBuffer, NextWord("bias"))
         \/ Issue("mac", MacOnBufferWith(FilterWord(drv.layer, drv.ch, drv.k)), NextWord("bias"))
  PROVE  GInv'
<1>1. DriverOK /\ CircuitOK /\ regs \in RegisterValues
  BY DEF GInv, CircuitOK
<1>2. drv.pc = "mac" /\ cmd_ready /\ drv' = NextWord("bias")
  BY DEF Issue, At, MacOnBuffer, MacOnBufferWith, Accept
<1>3. /\ inputs.read_data = InputWord(drv.layer, drv.pixel, drv.k)
      /\ offset_applied = drv.layer
      /\ design = "banked" =>
           /\ regs.rd_idx = bank /\ bank \in Banks
           /\ banks[bank].read_data = FilterWord(drv.layer, drv.ch, drv.k)
  BY <1>2, MacFinds
<1> DEFINE i == InputWord(drv.layer, drv.pixel, drv.k)
           w == FilterWord(drv.layer, drv.ch, drv.k)
           a == Append(regs.acc, ProductOf(drv.k))
<1>4. i \in Words /\ w \in Words /\ a \in Seq(Words \X Params \X Words)
        /\ a = Append(regs.acc, <<i, drv.layer, w>>)
  <2>1. drv.k \in 1 .. layer.words /\ drv.ch \in 1 .. layer.channels
    BY <1>1, DriverFields, GroupFacts, ShapeFacts, SMT
  <2>2. i \in Words /\ w \in Words /\ drv.layer \in Params
    BY <1>1, <2>1, WordTypes
  <2>3. ProductOf(drv.k) = <<i, drv.layer, w>>
    BY DEF ProductOf
  <2> HIDE DEF i, w
  <2>4. ProductOf(drv.k) \in Words \X Params \X Words
    BY <2>2, <2>3
  <2>5. regs.acc \in Seq(Words \X Params \X Words)
    BY <1>1, RegisterFields
  <2> QED
    BY <2>2, <2>3, <2>4, <2>5, AppendElements
<1>5. CASE Issue("mac", MacOnBuffer, NextWord("bias"))
  <2> DEFINE f == [NoFlags EXCEPT !.in_read = TRUE, !.in_write = TRUE,
                                  !.filter_read = {bank}, !.filter_write = {bank}]
             g == [regs EXCEPT !.acc = a, !.in_word = i, !.filter_word = w]
  <2>1. design = "banked" /\ Accept(f, g)
    BY <1>3, <1>4, <1>5 DEF Issue, MacOnBuffer
  <2>2. /\ f \in Strobes /\ ~f.in_clear /\ f.in_write /\ f.in_read /\ ~f.filter_clear
        /\ ~f.qnt_start /\ f.filter_read = {bank} /\ f.filter_write = {bank}
    BY <1>3, <2>1 DEF Strobes, NoFlags
  <2>3. /\ g \in RegisterValues /\ g.acc = a /\ g.in_word = i /\ g.filter_word = w
        /\ g.par = regs.par /\ g.rd_idx = regs.rd_idx
    <3> HIDE DEF a, i, w
    <3>1. RegisterValues = [acc : Seq(Words \X Params \X Words), in_word : Words,
                            filter_word : Words, wr_idx : Banks, rd_idx : Banks,
                            par : [DOMAIN NewPar -> Params]]
      BY DEF RegisterValues
    <3> QED
      BY <1>1, <1>4, <3>1
  <2> HIDE DEF f, g
  <2>4. f.filter_read = (IF design = "banked" THEN {bank} ELSE {}) /\ f.filter_write = f.filter_read
    BY <2>1, <2>2
  <2> QED
    BY <1>2, <2>1, <2>2, <2>3, <2>4, MacStep
<1>6. CASE Issue("mac", MacOnBufferWith(FilterWord(drv.layer, drv.ch, drv.k)), NextWord("bias"))
  <2> DEFINE f == [NoFlags EXCEPT !.in_read = TRUE, !.in_write = TRUE]
             g == [regs EXCEPT !.acc = a, !.in_word = i]
  <2>1. design = "streamed" /\ Accept(f, g)
    BY <1>3, <1>4, <1>6 DEF Issue, MacOnBufferWith
  <2>2. /\ f \in Strobes /\ ~f.in_clear /\ f.in_write /\ f.in_read /\ ~f.filter_clear
        /\ ~f.qnt_start /\ f.filter_read = {} /\ f.filter_write = {}
    BY <1>3, <2>1 DEF Strobes, NoFlags
  <2>3. /\ g \in RegisterValues /\ g.acc = a /\ g.in_word = i
        /\ g.par = regs.par /\ g.rd_idx = regs.rd_idx
    <3> HIDE DEF a, i, w
    <3>1. RegisterValues = [acc : Seq(Words \X Params \X Words), in_word : Words,
                            filter_word : Words, wr_idx : Banks, rd_idx : Banks,
                            par : [DOMAIN NewPar -> Params]]
      BY DEF RegisterValues
    <3> QED
      BY <1>1, <1>4, <3>1
  <2> HIDE DEF f, g
  <2>4. f.filter_read = (IF design = "banked" THEN {bank} ELSE {}) /\ f.filter_write = f.filter_read
          /\ design # "banked"
    BY <2>1, <2>2
  <2> QED
    BY <1>2, <2>1, <2>2, <2>3, <2>4, MacStep
<1> QED
  BY <1>5, <1>6

-----------------------------------------------------------------------------
(* Results and restarts, and the cycles in which no command is accepted.   *)

\* The layers of a program.
LEMMA ProgramShapes ==
  ASSUME NEW p \in Programs, NEW l \in DOMAIN p
  PROVE  /\ p[l].channels \in Nat \ {0} /\ p[l].words \in Nat \ {0} /\ p[l].group \in Nat \ {0}
         /\ 1 \in 1 .. p[l].channels /\ 1 \in 1 .. p[l].words
         /\ 1 \in 1 .. Minimum(1 + p[l].group - 1, p[l].channels)
<1>1. p \in Seq(Shapes) /\ l \in 1 .. Len(p)
  BY BoundsAssumption
<1>2. p[l] \in Shapes
  BY <1>1, ElementOfSeq
<1>3. p[l].channels \in Nat \ {0} /\ p[l].words \in Nat \ {0} /\ p[l].group \in Nat \ {0}
  BY <1>2, ShapesAssumption
<1> QED
  BY <1>3, SMT DEF Minimum

\* The start of a layer, whatever came before.
LEMMA LayerStarts ==
  ASSUME design \in {"banked", "streamed"}, layers \in Programs,
         \A l \in DOMAIN layers :
           Fits(layers[l]) /\ (design = "streamed" => layers[l].group >= layers[l].channels),
         UNCHANGED <<layers, design>>, since' \in 0 .. MIN_GAP,
         NEW l \in DOMAIN layers, drv' = [Start EXCEPT !.layer = l]
  PROVE  DriverOK'
<1>1. /\ drv' = [pc |-> "mac_offset", layer |-> l, group |-> 1, ch |-> 1, pixel |-> 1, k |-> 1]
      /\ drv'.pc = "mac_offset" /\ drv'.layer = l /\ drv'.group = 1 /\ drv'.ch = 1 /\ drv'.k = 1
      /\ layers' = layers /\ design' = design
  BY DEF Start
<1>2. layer' = layers[l] /\ last_pixel' = last_pixel
        /\ group_end' = Minimum(1 + layers[l].group - 1, layers[l].channels)
  BY <1>1 DEF layer, last_pixel, group_end
<1>3. 1 \in 1 .. last_pixel'
  BY <1>2, BoundsAssumption, SMT DEF last_pixel
<1>4. drv' \in [pc : Steps, layer : DOMAIN layers', group : 1 .. layer'.channels,
                ch : 1 .. layer'.channels, pixel : 1 .. last_pixel', k : 1 .. layer'.words]
  <2>1. "mac_offset" \in Steps
    BY DEF Steps, Configuring
  <2>2. 1 \in 1 .. layers[l].channels /\ 1 \in 1 .. layers[l].words
    BY ProgramShapes
  <2>3. 1 \in 1 .. layer'.channels /\ 1 \in 1 .. layer'.words /\ l \in DOMAIN layers'
    BY <1>1, <1>2, <2>2
  <2>4. drv' = [pc |-> "mac_offset", layer |-> l, group |-> 1, ch |-> 1, pixel |-> 1, k |-> 1]
    BY <1>1
  <2> DEFINE C == 1 .. layer'.channels
             P == 1 .. last_pixel'
             W == 1 .. layer'.words
             L == DOMAIN layers'
  <2>5. 1 \in C /\ 1 \in P /\ 1 \in W /\ l \in L
    BY <1>3, <2>3
  <2> HIDE DEF C, P, W, L
  <2>6. drv' \in [pc : Steps, layer : L, group : C, ch : C, pixel : P, k : W]
    <3>1. ASSUME NEW pc \in Steps, NEW n, n \in C, n \in P, n \in W
          PROVE  [pc |-> pc, layer |-> l, group |-> n, ch |-> n, pixel |-> n, k |-> n]
                   \in [pc : Steps, layer : L, group : C, ch : C, pixel : P, k : W]
      BY <2>5, <3>1
    <3> QED
      BY <2>1, <2>4, <2>5, <3>1
  <2> QED
    BY <2>6 DEF C, P, W, L
<1>5. /\ drv'.ch \in drv'.group .. group_end'
      /\ drv'.pc \notin {"filter", "input", "mac"} => drv'.k = 1
      /\ drv'.pc \in Configuring \cup {"clear_filter", "input", "rewind"} => drv'.ch = drv'.group
      /\ design' = "streamed" => drv'.group = 1 /\ drv'.pc \notin Filling \cup {"rewind"}
  BY <1>1, <1>2, ProgramShapes DEF Filling
<1> QED
  BY <1>1, <1>4, <1>5 DEF DriverOK

\* Where the driver goes on from a store.
LEMMA AfterStoreGoes ==
  ASSUME DriverOK, drv.pc = "store", drv' = AfterStore, UNCHANGED <<layers, design>>,
         since' \in 0 .. MIN_GAP
  PROVE  /\ DriverOK'
         /\ \/ /\ drv'.pc = "clear_acc" /\ SameGroup /\ drv'.ch = drv.ch + 1 /\ drv.ch < group_end
               /\ drv'.pixel = drv.pixel
            \/ drv'.pc = "clear_input" /\ SameGroup /\ drv.ch = group_end
            \/ drv'.pc = "clear_filter" /\ drv'.layer = drv.layer
            \/ drv'.pc \in {"mac_offset", "done"}
<1>1. /\ drv = [pc |-> drv.pc, layer |-> drv.layer, group |-> drv.group, ch |-> drv.ch,
                pixel |-> drv.pixel, k |-> drv.k]
      /\ drv.k = 1
      /\ drv.group \in 1 .. layer.channels /\ drv.pixel \in 1 .. last_pixel
      /\ 1 \in 1 .. layer.words
      /\ drv.ch \in drv.group .. Minimum(drv.group + layer.group - 1, layer.channels)
      /\ design = "streamed" => drv.group = 1
  BY DriverFields
<1>2. /\ group_end = Minimum(drv.group + layer.group - 1, layer.channels) /\ group_end \in Nat \ {0}
      /\ group_end <= layer.channels
      /\ drv.ch \in Nat \ {0} /\ drv.group \in Nat \ {0} /\ drv.ch <= group_end
      /\ drv.pixel \in Nat \ {0}
      /\ design = "streamed" => group_end = layer.channels
  BY GroupFacts DEF group_end
<1>3. layer.channels \in Nat \ {0} /\ layer.group \in Nat \ {0} /\ last_pixel \in Nat
        /\ drv.layer \in 1 .. Len(layers) /\ Len(layers) \in Nat
        /\ DOMAIN layers = 1 .. Len(layers)
  BY ShapeFacts
<1>4. CASE drv.ch < group_end
  <2>1. drv' = [pc |-> "clear_acc", layer |-> drv.layer, group |-> drv.group, ch |-> drv.ch + 1,
                pixel |-> drv.pixel, k |-> 1]
    BY <1>1, <1>4 DEF AfterStore
  <2>2. drv.ch + 1 \in drv.group .. Minimum(drv.group + layer.group - 1, layer.channels)
    <3>1. drv.ch \in drv.group .. group_end
      BY <1>1, <1>2
    <3> QED
      BY <1>2, <1>4, <3>1, SMT
  <2>3. GoesTo("clear_acc", drv.group, drv.ch + 1, drv.pixel, 1)
    BY <1>1, <2>1, <2>2 DEF GoesTo, Steps, Filling, Configuring, Accumulating
  <2>4. DriverOK'
    BY <2>3, DriverGoesOn
  <2> QED
    BY <1>4, <2>1, <2>4 DEF SameGroup
<1>5. CASE ~(drv.ch < group_end) /\ drv.pixel < last_pixel
  <2>1. drv' = [pc |-> "clear_input", layer |-> drv.layer, group |-> drv.group, ch |-> drv.ch,
                pixel |-> drv.pixel + 1, k |-> 1]
    BY <1>1, <1>5 DEF AfterStore
  <2>2. drv.pixel + 1 \in 1 .. last_pixel /\ drv.ch = group_end
    BY <1>2, <1>3, <1>5, SMT
  <2>3. GoesTo("clear_input", drv.group, drv.ch, drv.pixel + 1, 1)
    BY <1>1, <2>1, <2>2 DEF GoesTo, Steps, Filling, Configuring, Accumulating
  <2>4. DriverOK'
    BY <2>3, DriverGoesOn
  <2> QED
    BY <2>1, <2>2, <2>4 DEF SameGroup
<1>6. CASE ~(drv.ch < group_end) /\ ~(drv.pixel < last_pixel) /\ group_end < layer.channels
  <2> DEFINE e == group_end + 1
  <2>1. drv' = [pc |-> "clear_filter", layer |-> drv.layer, group |-> e, ch |-> e,
                pixel |-> drv.pixel, k |-> 1]
    BY <1>1, <1>6 DEF AfterStore
  <2>2. e \in 1 .. layer.channels /\ e \in e .. Minimum(e + layer.group - 1, layer.channels)
    <3> DEFINE c == layer.channels
               s == layer.group
               n == group_end
    <3>1. c \in Nat /\ s \in Nat \ {0} /\ n \in Nat /\ n < c
      BY <1>2, <1>3, <1>6
    <3> HIDE DEF c, s, n
    <3>2. n + 1 \in 1 .. c /\ n + 1 \in n + 1 .. Minimum(n + 1 + s - 1, c)
      BY <3>1, SMT DEF Minimum
    <3> QED
      BY <3>2 DEF c, s, n
  <2>3. design # "streamed"
    BY <1>2, <1>3, <1>6, SMT
  <2> HIDE DEF e
  <2>4. GoesTo("clear_filter", e, e, drv.pixel, 1)
    BY <1>1, <2>1, <2>2, <2>3 DEF GoesTo, Steps, Filling, Configuring, Accumulating
  <2>5. DriverOK'
    BY <2>4, DriverGoesOn
  <2> QED
    BY <2>1, <2>5
<1>7. CASE ~(drv.ch < group_end) /\ ~(drv.pixel < last_pixel) /\ ~(group_end < layer.channels)
             /\ drv.layer < Len(layers)
  <2>1. drv' = [Start EXCEPT !.layer = drv.layer + 1] /\ drv'.pc = "mac_offset"
    BY <1>7 DEF AfterStore, Start
  <2>2. drv.layer + 1 \in DOMAIN layers
    BY <1>3, <1>7, SMT
  <2>3. DriverOK'
    BY <2>1, <2>2, LayerStarts DEF DriverOK
  <2> QED
    BY <2>1, <2>3
<1>8. CASE ~(drv.ch < group_end) /\ ~(drv.pixel < last_pixel) /\ ~(group_end < layer.channels)
             /\ ~(drv.layer < Len(layers))
  <2>1. drv' = [pc |-> "done", layer |-> drv.layer, group |-> drv.group, ch |-> drv.ch,
                pixel |-> drv.pixel, k |-> 1]
    BY <1>1, <1>8 DEF AfterStore
  <2>2. GoesTo("done", drv.group, drv.ch, drv.pixel, 1)
    BY <1>1, <2>1 DEF GoesTo, Steps, Filling, Configuring, Accumulating
  <2>3. DriverOK'
    BY <2>2, DriverGoesOn
  <2> QED
    BY <2>1, <2>3
<1> QED
  BY <1>4, <1>5, <1>6, <1>7, <1>8

\* A quantizer that is not at work stays so.
LEMMA QuantizerRests ==
  ASSUME QuantizerOK, ~rsp.pending, quant' = next_quant
  PROVE  ~quant'.stage /\ ~quant'.status /\ quant'.stage \in BOOLEAN /\ quant'.status \in BOOLEAN
<1>1. ~flags.qnt_start /\ quant.stage = FALSE /\ quant.status = FALSE
  BY DEF QuantizerOK
<1> QED
  BY <1>1 DEF next_quant

\* An output is stored, and every queue has made a whole turn.
LEMMA StoreStep ==
  ASSUME GInv, drv.pc = "store", TakeResponse, stored' = [at |-> Here, value |-> rsp.out],
         drv' = AfterStore, since' \in 0 .. MIN_GAP, UNCHANGED layers
  PROVE  GInv'
<1>1. /\ DriverOK /\ RegistersOK /\ QueuesOK /\ CircuitOK /\ TimingOK
      /\ QuantizerOK /\ regs \in RegisterValues
  BY DEF GInv, CircuitOK
<1> DEFINE r == [rsp EXCEPT !.valid = FALSE]
<1>2. rsp.valid /\ Edge(r, NoFlags, regs) /\ ~rsp.pending
  BY <1>1 DEF TakeResponse, QuantizerOK
<1>3. ResponseOK(r) /\ ~r.valid /\ ~r.pending
  <2>1. ResponseOK(rsp)
    BY <1>1 DEF CircuitOK, ResponseOK
  <2> QED
    BY <1>2, <2>1, ResponseFields
<1> HIDE DEF r
<1>4. /\ CircuitOK' /\ In' = In /\ \A b \in Banks : Bank(b)' = Bank(b)
      /\ rsp' = r /\ flags' = NoFlags /\ regs' = regs /\ design' = design /\ quant' = next_quant
  BY <1>1, <1>2, <1>3, NoFlagsFields, QuietEdge DEF Quiet
<1>5. /\ DriverOK'
      /\ \/ /\ drv'.pc = "clear_acc" /\ SameGroup /\ drv'.ch = drv.ch + 1 /\ drv.ch < group_end
            /\ drv'.pixel = drv.pixel
         \/ drv'.pc = "clear_input" /\ SameGroup /\ drv.ch = group_end
         \/ drv'.pc = "clear_filter" /\ drv'.layer = drv.layer
         \/ drv'.pc \in {"mac_offset", "done"}
  BY <1>1, <1>4, AfterStoreGoes
<1>6. TimingOK'
  BY <1>4, <1>5 DEF TimingOK, At
<1>7. QuantizerOK'
  BY <1>1, <1>2, <1>3, <1>4, <1>5, QuantizerRests, NoFlagsFields DEF QuantizerOK, At
<1>8. words_done = layer.words
  BY DEF words_done
<1>9. before \in Nat /\ group_size \in Nat \ {0}
        /\ (drv.ch = group_end => before + 1 = group_size)
        /\ (SameGroup /\ drv'.ch = drv.ch + 1 => before' = before + 1)
  BY <1>1, GroupFacts DEF before, SameGroup
<1>10. QueuesOK'
  <2>1. In = PixelWords(layer.words)
    BY <1>1, <1>8, QueueTurns DEF QueuesOK, Accumulating
  <2>2. ASSUME design = "banked", NEW b \in Banks
        PROVE  /\ Bank(b) = Turned(FilterWords(b, bank_size(b)), bank_done(b))
               /\ bank_done(b) = Share(b, before + 1) * layer.words
    BY <1>1, <1>8, <2>2, BankProgress DEF QueuesOK, Accumulating
  <2>3. CASE drv'.pc = "clear_acc" /\ SameGroup /\ drv'.ch = drv.ch + 1 /\ drv'.pixel = drv.pixel
    <3>1. /\ layer' = layer /\ (\A b : bank_size(b)' = bank_size(b))
          /\ \A b, n : FilterWords(b, n)' = FilterWords(b, n)
      BY <2>3, GroupFrame
    <3>2. \A n : PixelWords(n)' = PixelWords(n)
      BY <2>3, PixelFrame DEF SameGroup
    <3>3. words_done' = 0
      <4>1. drv'.k = 1
        BY <1>5, <2>3 DEF DriverOK
      <4> QED
        BY <2>3, <4>1 DEF words_done
    <3>4. In' = Turned(PixelWords(layer.words), words_done)'
      <4>1. PixelWords(layer.words)' = PixelWords(layer.words)
        BY <3>1, <3>2 DEF PixelWords
      <4> QED
        BY <1>1, <1>4, <2>1, <3>3, <4>1, QueueTurns DEF Turned
    <3>5. ASSUME design = "banked", NEW b \in Banks
          PROVE  Bank(b)' = Turned(FilterWords(b, bank_size(b)), bank_done(b))'
      <4>1. FilterWords(b, bank_size(b))' = FilterWords(b, bank_size(b))
        BY <3>1 DEF FilterWords
      <4>2. bank_done(b)' = Share(b, before + 1) * layer.words + 0
        BY <1>9, <2>3, <3>1, <3>3 DEF bank_done, Share
      <4>3. Share(b, before + 1) \in Nat
        BY <1>9, ShareType
      <4>4. bank_done(b)' = Share(b, before + 1) * layer.words
        BY <1>1, <4>2, <4>3, ShapeFacts, SMT
      <4>5. bank_done(b)' = bank_done(b)
        BY <2>2, <3>5, <4>4
      <4> QED
        BY <1>4, <2>2, <3>5, <4>1, <4>5 DEF Turned
    <3> QED
      BY <1>4, <2>3, <3>4, <3>5 DEF QueuesOK, At
  <2>4. CASE drv'.pc = "clear_input" /\ SameGroup /\ drv.ch = group_end
    <3>1. ASSUME design = "banked", NEW b \in Banks
          PROVE  Bank(b)' = FilterWords(b, bank_size(b))'
      <4>1. FilterWords(b, bank_size(b))' = FilterWords(b, bank_size(b))
        BY <2>4, GroupFrame DEF FilterWords
      <4>2. bank_done(b) = bank_size(b)
        BY <1>1, <1>9, <2>2, <2>4, <3>1, BankSizes
      <4> QED
        BY <1>1, <1>4, <2>2, <3>1, <4>1, <4>2, QueueTurns
    <3> QED
      BY <1>4, <2>4, <3>1 DEF QueuesOK, At, Accumulating
  <2>5. CASE drv'.pc \in {"clear_filter", "mac_offset", "done"}
    BY <2>5 DEF QueuesOK, At, Accumulating
  <2> QED
    BY <1>5, <2>3, <2>4, <2>5
<1>11. RegistersOK'
  <2>1. ASSUME design = "banked", drv'.pc = "clear_acc"
        PROVE  regs'.rd_idx = bank'
    <3>1. regs.rd_idx = (bank + 1) % FILTER_BANKS
      BY <1>1, <1>2, <2>1 DEF RegistersOK, Accumulating, At
    <3>2. bank' = (before + 1) % FILTER_BANKS
      BY <1>5, <1>9, <2>1 DEF bank
    <3>3. (before + 1) % FILTER_BANKS = (bank + 1) % FILTER_BANKS
      <4>1. 0 \in Banks
        BY BanksAssumption, SMT DEF Banks
      <4> QED
        BY <1>9, <4>1, ShareNext DEF bank
    <3> QED
      BY <1>4, <3>1, <3>2, <3>3
  <2>2. CASE drv'.pc = "clear_acc" /\ drv'.layer = drv.layer
    BY <1>1, <1>4, <2>1, <2>2
       DEF RegistersOK, Accumulating, Steps, Configuring, Filling, At
  <2>3. CASE drv'.pc \in {"clear_input", "clear_filter"} /\ drv'.layer = drv.layer
    BY <1>1, <1>4, <2>3
       DEF RegistersOK, Accumulating, Steps, Configuring, Filling, At
  <2>4. CASE drv'.pc \in {"mac_offset", "done"}
    BY <2>4 DEF RegistersOK, Accumulating, Configuring, Filling
  <2> QED
    BY <1>5, <2>2, <2>3, <2>4 DEF SameGroup
<1>12. OutputsRight'
  <2> DEFINE ParAt == [n \in DOMAIN NewPar |-> IF n \in {"bias", "mul", "shift"} THEN drv.ch
                                               ELSE drv.layer]
  <2>1. DOMAIN NewPar = {"mac_offset", "bias", "mul", "shift", "offset", "clamp"}
    BY DEF NewPar
  <2>2. regs.par = ParAt
    <3>1. /\ regs.par["mac_offset"] = drv.layer /\ regs.par["offset"] = drv.layer
          /\ regs.par["clamp"] = drv.layer /\ regs.par["bias"] = drv.ch
          /\ regs.par["mul"] = drv.ch /\ regs.par["shift"] = drv.ch
      BY <1>1 DEF RegistersOK, Steps, Accumulating, Configuring
    <3>2. regs.par \in [DOMAIN NewPar -> Params]
      BY <1>1 DEF RegisterValues
    <3>3. \A n \in DOMAIN NewPar : regs.par[n] = ParAt[n]
      BY <2>1, <3>1
    <3> QED
      BY <3>2, <3>3
  <2>3. regs.acc = Products(layer.words)
    BY <1>1, <1>8 DEF RegistersOK, Accumulating
  <2>4. rsp.out = <<regs.acc, regs.par>>
    BY <1>1, <1>2 DEF QuantizerOK, At
  <2>5. stored'.at = Here /\ stored'.value = <<Products(layer.words), ParAt>>
    BY <2>2, <2>3, <2>4
  <2>6. Here.layer = drv.layer /\ Here.pixel = drv.pixel /\ Here.ch = drv.ch
          /\ layers[drv.layer] = layer /\ layers' = layers
    BY DEF Here, layer
  <2> QED
    BY <2>5, <2>6 DEF OutputsRight, Products
<1> QED
  BY <1>4, <1>5, <1>6, <1>7, <1>10, <1>11, <1>12 DEF GInv

\* A cycle that raises no strobe and leaves the driver where it is.
LEMMA QuietCycle ==
  ASSUME GInv, NEW r, ResponseOK(r), NEW g \in RegisterValues, Edge(r, NoFlags, g),
         g.acc = regs.acc, g.par = regs.par, g.wr_idx = regs.wr_idx,
         design = "banked" /\ drv.pc \in Accumulating =>
           g.rd_idx = IF drv.pc = "store" /\ r.valid THEN (bank + 1) % FILTER_BANKS ELSE bank,
         quant' = next_quant => QuantizerOK',
         since' = Aged, UNCHANGED <<layers, drv, stored>>
  PROVE  GInv'
<1>1. /\ DriverOK /\ RegistersOK /\ QueuesOK /\ CircuitOK /\ TimingOK
      /\ QuantizerOK /\ OutputsRight
  BY DEF GInv
<1>2. /\ CircuitOK' /\ In' = In /\ \A b \in Banks : Bank(b)' = Bank(b)
      /\ rsp' = r /\ flags' = NoFlags /\ regs' = g /\ design' = design /\ quant' = next_quant
      /\ offset_applied' = IF flags.in_clear THEN Zero ELSE regs.par["mac_offset"]
      /\ flags = NoFlags => Fresh(inputs') /\ \A b \in Banks : Fresh(banks'[b])
  BY <1>1, NoFlagsFields, QuietEdge DEF Quiet
<1>3. DriverOK'
  <2>1. since' \in 0 .. MIN_GAP
    BY <1>1, AgedType
  <2> QED
    BY <1>1, <1>2, <2>1, DriverStays
<1>4. TimingOK'
  <2>1. since' >= 3 => since >= 2
    BY <1>1, GapAssumption, BoundsAssumption, SMT DEF Aged, DriverOK
  <2> QED
    BY <1>1, <1>2, <2>1, NoFlagsFields DEF TimingOK, At
<1>5. SameChannel /\ drv' = drv /\ layer' = layer /\ words_done' = words_done /\ bank' = bank
  <2>1. SameChannel /\ drv' = drv
    BY DEF SameChannel, SameGroup
  <2>2. layer' = layer /\ bank' = bank
    BY <2>1, GroupFrame, ChannelFrame DEF SameChannel
  <2> QED
    BY <2>1, <2>2 DEF words_done
<1>6. QueuesOK'
  <2>1. CASE drv.pc \in Accumulating
    BY <1>1, <1>2, <1>5, <2>1, QueuesStay
  <2>2. CASE drv.pc \notin Accumulating
    <3>1. /\ \A b, n : FilterWords(b, n)' = FilterWords(b, n)
          /\ \A b : bank_size(b)' = bank_size(b)
      BY <1>5, GroupFrame DEF SameChannel
    <3>2. \A n : PixelWords(n)' = PixelWords(n)
      BY <1>5, PixelFrame
    <3>3. \A b : bank_done(b)' = bank_done(b)
      BY <1>5, DoneFrame DEF bank_done
    <3>4. PixelWords(drv.k - 1)' = PixelWords(drv.k - 1)
            /\ PixelWords(layer.words)' = PixelWords(layer.words)
      BY <1>5, <3>2 DEF PixelWords
    <3>5. \A b \in Banks : /\ FilterWords(b, bank_done(b))' = FilterWords(b, bank_done(b))
                           /\ FilterWords(b, bank_size(b))' = FilterWords(b, bank_size(b))
      BY <3>1, <3>3 DEF FilterWords
    <3> QED
      BY <1>1, <1>2, <1>5, <2>2, <3>4, <3>5 DEF QueuesOK, At
  <2> QED
    BY <2>1, <2>2
<1>7. RegistersOK'
  <2>1. Products(words_done)' = Products(words_done)
    BY <1>5, ProductsFrame DEF Products
  <2> QED
    BY <1>1, <1>2, <1>5, <2>1 DEF RegistersOK, At
<1>8. OutputsRight'
  BY <1>1, OutputsFrame
<1> QED
  BY <1>2, <1>3, <1>4, <1>6, <1>7, <1>8 DEF GInv

\* The answer of a command is taken.
LEMMA AcknowledgeStep ==
  ASSUME GInv, Acknowledge
  PROVE  GInv'
<1> DEFINE r == [rsp EXCEPT !.valid = FALSE]
<1>1. RegistersOK /\ QuantizerOK /\ CircuitOK
  BY DEF GInv
<1>2. /\ drv.pc # "store" /\ rsp.valid /\ Edge(r, NoFlags, regs)
      /\ since' = Aged /\ UNCHANGED <<layers, drv, stored>>
  BY DEF Acknowledge, TakeResponse, At
<1>3. regs \in RegisterValues /\ ResponseOK(rsp) /\ ~rsp.pending
  BY <1>1, <1>2 DEF CircuitOK, ResponseOK, QuantizerOK
<1>4. ResponseOK(r) /\ ~r.valid /\ ~r.pending
  BY <1>3, ResponseFields
<1>5. rsp' = r /\ flags' = NoFlags
  BY <1>2 DEF Edge
<1> HIDE DEF r
<1>6. ASSUME quant' = next_quant
      PROVE  QuantizerOK'
  BY <1>1, <1>2, <1>3, <1>4, <1>5, <1>6, QuantizerRests, NoFlagsFields DEF QuantizerOK, At
<1>7. design = "banked" /\ drv.pc \in Accumulating =>
        regs.rd_idx = IF drv.pc = "store" /\ r.valid THEN (bank + 1) % FILTER_BANKS ELSE bank
  BY <1>1, <1>2 DEF RegistersOK, At
<1> QED
  BY <1>2, <1>3, <1>4, <1>6, <1>7, QuietCycle

\* The answer of the quantizer is made of what it was started with.
LEMMA QuantizedResult ==
  ASSUME regs \in RegisterValues, quant.scaled = <<regs.acc, regs.par>>
  PROVE  qnt_out = <<regs.acc, regs.par>>
<1>1. regs.par \in [DOMAIN NewPar -> Params]
  BY DEF RegisterValues
<1>2. quant.scaled[1] = regs.acc /\ quant.scaled[2] = regs.par
  OBVIOUS
<1>3. [n \in DOMAIN regs.par |->
         IF n \in {"shift", "offset", "clamp"} THEN regs.par[n] ELSE quant.scaled[2][n]] = regs.par
  BY <1>1, <1>2
<1> QED
  BY <1>2, <1>3 DEF qnt_out

\* The cycles in between, and those of the quantizer.
LEMMA WaitStep ==
  ASSUME GInv, Wait
  PROVE  GInv'
<1>1. RegistersOK /\ QuantizerOK /\ CircuitOK /\ regs \in RegisterValues /\ ResponseOK(rsp)
  BY DEF GInv, CircuitOK, ResponseOK
<1>2. since' = Aged /\ UNCHANGED <<layers, drv, stored>>
  BY DEF Wait
<1>3. CASE NoCommand \/ HoldResponse
  <2>1. Edge(rsp, NoFlags, regs) /\ ~rsp.pending /\ rsp' = rsp /\ flags' = NoFlags /\ regs' = regs
    BY <1>1, <1>3 DEF NoCommand, HoldResponse, cmd_ready, QuantizerOK, Edge
  <2>2. ASSUME quant' = next_quant
        PROVE  QuantizerOK'
    BY <1>1, <1>2, <2>1, <2>2, QuantizerRests, NoFlagsFields DEF QuantizerOK, At
  <2>3. design = "banked" /\ drv.pc \in Accumulating =>
          regs.rd_idx = IF drv.pc = "store" /\ rsp.valid THEN (bank + 1) % FILTER_BANKS ELSE bank
    BY <1>1 DEF RegistersOK, At
  <2> QED
    BY <1>1, <1>2, <2>1, <2>2, <2>3, QuietCycle
<1>4. CASE AwaitQuantizer
  <2>1. /\ Edge(rsp, NoFlags, regs) /\ rsp.pending /\ ~quant.status /\ rsp' = rsp
        /\ flags' = NoFlags /\ regs' = regs
    BY <1>4 DEF AwaitQuantizer, Edge
  <2>2. ASSUME quant' = next_quant
        PROVE  QuantizerOK'
    <3>1. /\ quant'.stage = (~quant.stage /\ flags.qnt_start) /\ quant'.status = quant.stage
          /\ quant'.ab = IF flags.qnt_start /\ ~quant.stage THEN <<regs.acc, regs.par>>
                         ELSE quant.ab
          /\ quant'.scaled = IF quant.stage THEN quant.ab ELSE quant.scaled
      BY <2>2 DEF next_quant
    <3>2. quant.stage \in BOOLEAN /\ quant.status \in BOOLEAN
      BY <1>1 DEF QuantizerOK
    <3>3. CASE flags.qnt_start /\ ~quant.stage
      <4>1. quant'.stage = TRUE /\ quant'.status = FALSE /\ quant'.ab = <<regs.acc, regs.par>>
        BY <3>1, <3>2, <3>3
      <4> QED
        BY <1>1, <1>2, <2>1, <4>1, NoFlagsFields DEF QuantizerOK, At
    <3>4. CASE ~flags.qnt_start /\ quant.stage
      <4>1. quant'.stage = FALSE /\ quant'.status = TRUE /\ quant'.scaled = quant.ab
        BY <3>1, <3>2, <3>4
      <4>2. quant.ab = <<regs.acc, regs.par>>
        BY <1>1, <2>1, <3>4 DEF QuantizerOK
      <4> QED
        BY <1>1, <1>2, <2>1, <4>1, <4>2, NoFlagsFields DEF QuantizerOK, At
    <3> QED
      BY <1>1, <2>1, <3>3, <3>4 DEF QuantizerOK
  <2>3. design = "banked" /\ drv.pc \in Accumulating =>
          regs.rd_idx = IF drv.pc = "store" /\ rsp.valid THEN (bank + 1) % FILTER_BANKS ELSE bank
    BY <1>1 DEF RegistersOK, At
  <2> QED
    BY <1>1, <1>2, <2>1, <2>2, <2>3, QuietCycle
<1>5. CASE FinishGet
  <2> DEFINE r == [valid |-> TRUE, pending |-> FALSE, out |-> qnt_out]
             i == (regs.rd_idx + 1) % FILTER_BANKS
             g == [regs EXCEPT !.rd_idx = i]
  <2>1. Edge(r, NoFlags, g) /\ ~rsp.valid /\ rsp.pending /\ quant.status
    BY <1>5 DEF FinishGet
  <2>2. rsp' = r /\ flags' = NoFlags /\ regs' = g
    BY <2>1 DEF Edge
  <2>3. i \in Banks
    <3>1. regs.rd_idx + 1 \in Nat
      BY <1>1, RegisterFields, BanksAssumption, SMT DEF Banks
    <3> HIDE DEF i
    <3>2. 0 \in Banks
      BY BanksAssumption, SMT DEF Banks
    <3> QED
      BY <3>1, <3>2, ShareType DEF i
  <2> HIDE DEF i
  <2>4. /\ g \in RegisterValues /\ g.rd_idx = i /\ g.par = regs.par /\ g.acc = regs.acc
        /\ g.wr_idx = regs.wr_idx
    BY <1>1, <2>3, RegisterFields
  <2> HIDE DEF g
  <2>5. drv.pc = "store" /\ ~flags.qnt_start /\ quant.stage = FALSE
          /\ quant.scaled = <<regs.acc, regs.par>>
    BY <1>1, <2>1 DEF QuantizerOK, At
  <2>6. qnt_out = <<regs.acc, regs.par>>
    BY <1>1, <2>5, QuantizedResult
  <2>7. r.valid /\ ~r.pending /\ r.out = <<regs.acc, regs.par>> /\ ResponseOK(r)
    BY <2>6 DEF ResponseOK
  <2> HIDE DEF r
  <2>8. ASSUME quant' = next_quant
        PROVE  QuantizerOK'
    <3>1. quant'.stage = FALSE /\ quant'.status = FALSE
      BY <2>5, <2>8 DEF next_quant
    <3> QED
      BY <1>2, <2>2, <2>4, <2>5, <2>7, <3>1, NoFlagsFields DEF QuantizerOK, At
  <2>9. design = "banked" /\ drv.pc \in Accumulating =>
          g.rd_idx = IF drv.pc = "store" /\ r.valid THEN (bank + 1) % FILTER_BANKS ELSE bank
    BY <1>1, <2>1, <2>4, <2>5, <2>7 DEF RegistersOK, At, i
  <2> QED
    BY <1>2, <2>1, <2>4, <2>7, <2>8, <2>9, QuietCycle
<1> QED
  BY <1>3, <1>4, <1>5 DEF Wait

-----------------------------------------------------------------------------
(* The theorems.                                                           *)

\* The circuit after a reset.
LEMMA NewCircuit ==
  /\ Valid(NewBuffer) /\ NoFlags \in Strobes /\ NewRegs \in RegisterValues /\ Zero \in Params
  /\ DOMAIN NewRsp = {"valid", "pending", "out"}
  /\ ~NewRsp.valid /\ NewRsp.valid \in BOOLEAN /\ ~NewRsp.pending /\ NewRsp.pending \in BOOLEAN
  /\ ~NewQuant.stage /\ NewQuant.stage \in BOOLEAN /\ ~NewQuant.status
  /\ NewQuant.status \in BOOLEAN
<1>1. Zero \in Words /\ Unwritten \in Words /\ Zero \in Params
  BY DataAssumption
<1>2. 0 \in Places /\ 0 \in 0 .. DEPTH /\ 0 \in Banks /\ 0 + 0 < DEPTH /\ 0 = 0 + 0
  BY DepthAssumption, BanksAssumption, SMT DEF Places, Banks
<1>3. Valid(NewBuffer)
  <2>1. NewBuffer \in Buffers
    BY <1>1, <1>2 DEF NewBuffer, Buffers
  <2>2. Consistent(NewBuffer)
    BY <1>2 DEF NewBuffer, Consistent
  <2> QED
    BY <2>1, <2>2 DEF Valid
<1>4. NewRegs \in RegisterValues
  <2>1. NewPar \in [DOMAIN NewPar -> Params]
    BY <1>1 DEF NewPar
  <2>2. <<>> \in Seq(Words \X Params \X Words)
    BY EmptySeq
  <2> QED
    BY <1>1, <1>2, <2>1, <2>2 DEF NewRegs, RegisterValues
<1> QED
  BY <1>1, <1>3, <1>4, NoFlagsFields DEF NewRsp, NewQuant

\* A system that starts.
LEMMA InitOK ==
  ASSUME Init
  PROVE  GInv
<1>1. CircuitOK
  <2>1. /\ inputs = NewBuffer /\ banks = [b \in Banks |-> NewBuffer] /\ flags = NoFlags
        /\ regs = NewRegs /\ rsp = NewRsp /\ offset_applied = Zero
    BY DEF Init, InitCfu
  <2>2. NothingDropped
    BY <2>1, NoFlagsFields DEF NothingDropped
  <2> QED
    BY <2>1, <2>2, NewCircuit DEF CircuitOK
<1>2. DriverOK
  <2>1. /\ drv = [pc |-> "mac_offset", layer |-> 1, group |-> 1, ch |-> 1, pixel |-> 1, k |-> 1]
        /\ drv.pc = "mac_offset" /\ drv.layer = 1 /\ drv.group = 1 /\ drv.ch = 1 /\ drv.k = 1
        /\ since = MIN_GAP /\ layers \in Programs /\ design \in {"banked", "streamed"}
        /\ \A l \in DOMAIN layers :
             Fits(layers[l]) /\ (design = "streamed" => layers[l].group >= layers[l].channels)
    BY DEF Init, InitCfu, Start
  <2>2. 1 \in DOMAIN layers
    BY <2>1, BoundsAssumption, SMT
  <2>3. layer = layers[1] /\ group_end = Minimum(1 + layers[1].group - 1, layers[1].channels)
    BY <2>1 DEF layer, group_end
  <2>4. 1 \in 1 .. layer.channels /\ 1 \in 1 .. layer.words /\ 1 \in 1 .. group_end
    BY <2>1, <2>2, <2>3, ProgramShapes
  <2>5. 1 \in 1 .. last_pixel /\ since \in 0 .. MIN_GAP
    BY <2>1, BoundsAssumption, SMT DEF last_pixel
  <2>6. drv \in [pc : Steps, layer : DOMAIN layers, group : 1 .. layer.channels,
                 ch : 1 .. layer.channels, pixel : 1 .. last_pixel, k : 1 .. layer.words]
    <3> DEFINE C == 1 .. layer.channels
               P == 1 .. last_pixel
               W == 1 .. layer.words
               L == DOMAIN layers
    <3>1. 1 \in C /\ 1 \in P /\ 1 \in W /\ 1 \in L /\ "mac_offset" \in Steps
      BY <2>2, <2>4, <2>5 DEF Steps, Configuring
    <3> HIDE DEF C, P, W, L
    <3>2. ASSUME NEW pc \in Steps, NEW n, n \in C, n \in P, n \in W, n \in L
          PROVE  [pc |-> pc, layer |-> n, group |-> n, ch |-> n, pixel |-> n, k |-> n]
                   \in [pc : Steps, layer : L, group : C, ch : C, pixel : P, k : W]
      BY <3>2
    <3>3. drv \in [pc : Steps, layer : L, group : C, ch : C, pixel : P, k : W]
      BY <2>1, <3>1, <3>2
    <3> QED
      BY <3>3 DEF C, P, W, L
  <2> QED
    BY <2>1, <2>4, <2>5, <2>6 DEF DriverOK, Filling
<1>3. At("mac_offset") /\ drv.pc = "mac_offset" /\ flags = NoFlags /\ rsp = NewRsp
        /\ quant = NewQuant /\ stored.at = Nowhere
  BY DEF Init, InitCfu, Start, At
<1>4. TimingOK /\ QuantizerOK
  BY <1>3, NewCircuit, NoFlagsFields DEF TimingOK, QuantizerOK, At
<1>5. QueuesOK /\ RegistersOK /\ OutputsRight
  BY <1>3 DEF QueuesOK, RegistersOK, OutputsRight, At, Accumulating, Configuring
<1> QED
  BY <1>1, <1>2, <1>4, <1>5 DEF GInv

\* ... and one that restarts.
LEMMA RestartStep ==
  ASSUME GInv, Restart
  PROVE  GInv'
<1>1. DriverOK
  BY DEF GInv
<1>2. /\ inputs' = NewBuffer /\ banks' = [b \in Banks |-> NewBuffer] /\ flags' = NoFlags
      /\ regs' = NewRegs /\ rsp' = NewRsp /\ offset_applied' = Zero /\ quant' = NewQuant
      /\ design' = design /\ layers' = layers /\ drv' = Start /\ since' = MIN_GAP
      /\ stored' = [at |-> Nowhere, value |-> <<>>]
  BY DEF Restart, Reset
<1>3. CircuitOK'
  <2>1. NothingDropped'
    BY <1>2, NoFlagsFields DEF NothingDropped
  <2> QED
    BY <1>2, <2>1, NewCircuit DEF CircuitOK
<1>4. DriverOK'
  <2>1. 1 \in DOMAIN layers
    BY <1>1, ShapeFacts, SMT
  <2>2. Start = [Start EXCEPT !.layer = 1]
    BY DEF Start
  <2>3. since' \in 0 .. MIN_GAP
    BY <1>2, BoundsAssumption, SMT
  <2> QED
    BY <1>1, <1>2, <2>1, <2>2, <2>3, LayerStarts DEF DriverOK
<1>5. drv'.pc = "mac_offset" /\ stored'.at = Nowhere
  BY <1>2 DEF Start
<1>6. TimingOK' /\ QuantizerOK'
  BY <1>2, <1>5, NewCircuit, NoFlagsFields DEF TimingOK, QuantizerOK, At
<1>7. QueuesOK' /\ RegistersOK' /\ OutputsRight'
  BY <1>5 DEF QueuesOK, RegistersOK, OutputsRight, At, Accumulating, Configuring
<1> QED
  BY <1>3, <1>4, <1>6, <1>7 DEF GInv

\* Every command preserves the invariant, ...
LEMMA CommandStep ==
  ASSUME GInv, Command
  PROVE  GInv'
<1>1. since' \in 0 .. MIN_GAP /\ UNCHANGED <<layers, stored>>
        /\ (drv.pc = "mac" => since' = 1)
  <2>1. DriverOK
    BY DEF GInv
  <2> QED
    BY <2>1, AgedType DEF Command, At
<1>2. CASE Configure
  BY <1>1, <1>2, ConfigureStep
<1>3. CASE LoadFilters
  BY <1>1, <1>3, ClearFilterStep, SetFilterStep, NextSetStep DEF LoadFilters
<1>4. CASE LoadInput
  BY <1>1, <1>4, ClearInputStep, SetInputStep, RewindStep DEF LoadInput
<1>5. CASE Accumulate
  <2>1. CASE Issue("clear_acc", MacClear, [drv EXCEPT !.pc = "mac"])
    BY <1>1, <2>1, MacClearStep
  <2>2. CASE /\ since >= MIN_GAP
             /\ \/ Issue("mac", MacOnBuffer, NextWord("bias"))
                \/ Issue("mac", MacOnBufferWith(FilterWord(drv.layer, drv.ch, drv.k)),
                         NextWord("bias"))
    <3>1. since' = 1
      BY <1>1, <2>2 DEF Issue, At
    <3> QED
      BY <1>1, <2>2, <3>1, MacOnBufferStep
  <2> QED
    BY <1>5, <2>1, <2>2 DEF Accumulate
<1>6. CASE Quantize
  BY <1>1, <1>6, BiasStep, MulStep, GetStep DEF Quantize
<1> QED
  BY <1>2, <1>3, <1>4, <1>5, <1>6 DEF Command

\* ... and so does every step.
LEMMA GInvPreserved ==
  ASSUME GInv, [Next]_vars
  PROVE  GInv'
<1>1. CASE Command
  BY <1>1, CommandStep
<1>2. CASE Store
  <2>1. since' \in 0 .. MIN_GAP
    BY <1>2, AgedType DEF Store, GInv
  <2> QED
    BY <1>2, <2>1, StoreStep DEF Store, At
<1>3. CASE Acknowledge
  BY <1>3, AcknowledgeStep
<1>4. CASE Wait
  BY <1>4, WaitStep
<1>5. CASE Restart
  BY <1>5, RestartStep
<1>6. CASE UNCHANGED vars
  <2>1. /\ design' = design /\ rsp' = rsp /\ flags' = flags /\ regs' = regs
        /\ offset_applied' = offset_applied /\ inputs' = inputs /\ banks' = banks
        /\ quant' = quant /\ layers' = layers /\ drv' = drv /\ since' = since
        /\ stored' = stored
    BY <1>6 DEF vars, cfu_vars
  <2>2. /\ layer' = layer /\ last_pixel' = last_pixel /\ group_end' = group_end
        /\ next_inputs' = next_inputs /\ next_banks' = next_banks
        /\ before' = before /\ words_done' = words_done /\ bank' = bank
        /\ group_size' = group_size /\ cmd_ready' = cmd_ready
    BY <2>1 DEF layer, last_pixel, group_end, next_inputs, next_banks, before, words_done, bank,
                group_size, cmd_ready
  <2>3. DriverOK' /\ CircuitOK' /\ OutputsRight' /\ QuantizerOK' /\ TimingOK'
    BY <2>1, <2>2 DEF GInv, DriverOK, CircuitOK, OutputsRight, QuantizerOK, TimingOK,
                      NothingDropped, At
  <2>4. QueuesOK' /\ RegistersOK'
    BY <2>1, <2>2 DEF GInv, QueuesOK, RegistersOK, At, In, Bank, PixelWords, FilterWords, Products,
                      bank_done, bank_size
  <2> QED
    BY <2>3, <2>4 DEF GInv
<1> QED
  BY <1>1, <1>2, <1>3, <1>4, <1>5, <1>6 DEF Next

\* The queues hold, at every step of the driver's loops, the words that the loops have
\* stored, turned by the words they have used.
THEOREM AlwaysGInv == Spec => []GInv
<1>1. Init => GInv
  BY InitOK
<1>2. GInv /\ [Next]_vars => GInv'
  BY GInvPreserved
<1> QED
  BY <1>1, <1>2, PTL DEF Spec

\* The registers keep their types, and the pointers of every buffer stay as far apart as
\* its count says (cfu.v, cfu_input_buffer.v, cfu_filter_buffer.v).
THEOREM AlwaysTypeOK == Spec => []TypeOK
<1>1. GInv => TypeOK
  <2>1. SUFFICES ASSUME GInv
        PROVE  TypeOK
    OBVIOUS
  <2>2. DriverOK /\ CircuitOK /\ QuantizerOK
    BY <2>1 DEF GInv
  <2>3. /\ regs.in_word \in Words /\ regs.filter_word \in Words /\ regs.wr_idx \in Banks
        /\ regs.rd_idx \in Banks /\ regs.par \in [DOMAIN NewPar -> Params]
    BY <2>2 DEF CircuitOK, RegisterValues
  <2>4. drv.ch \in drv.group .. group_end /\ drv.k \in 1 .. layer.words
    BY <2>2 DEF DriverOK
  <2>5. ~(rsp.valid /\ rsp.pending)
    BY <2>2 DEF QuantizerOK
  <2> QED
    BY <2>2, <2>3, <2>4, <2>5 DEF TypeOK, CircuitOK, Valid
<1> QED
  BY <1>1, AlwaysGInv, PTL

\* No word is written to a full buffer and none taken from an empty one, although the
\* driver (conv.h) looks at neither write_full nor read_empty.
THEOREM AlwaysNothingDropped == Spec => []NothingDropped
<1>1. GInv => NothingDropped
  BY DEF GInv, CircuitOK
<1> QED
  BY <1>1, AlwaysGInv, PTL

\* The input words are back in their places for every channel and the filter words of
\* every bank for every pixel, for every number of channels, words and banks that fits.
THEOREM AlwaysRotationsComplete == Spec => []RotationsComplete
<1>1. GInv => RotationsComplete
  <2>1. SUFFICES ASSUME GInv
        PROVE  RotationsComplete
    OBVIOUS
  <2>2. DriverOK /\ QueuesOK
    BY <2>1 DEF GInv
  <2>3. ASSUME At("clear_acc")
        PROVE  In = PixelWords(layer.words)
    <3>1. words_done = 0
      BY <2>2, <2>3 DEF words_done, DriverOK, At
    <3>2. In = Turned(PixelWords(layer.words), 0)
      BY <2>2, <2>3, <3>1 DEF QueuesOK, Accumulating, At
    <3> QED
      BY <2>2, <3>2, QueueTurns
  <2>4. ASSUME design = "banked", At("clear_input"), NEW b \in Banks
        PROVE  Bank(b) = LoadedFilter(b)
    <3>1. Bank(b) = FilterWords(b, bank_size(b))
      BY <2>2, <2>4 DEF QueuesOK, At
    <3> QED
      BY <2>2, <3>1, LoadedIsAll
  <2> QED
    BY <2>3, <2>4 DEF RotationsComplete, In, Bank, PixelWords
<1> QED
  BY <1>1, AlwaysGInv, PTL

\* Every stored output is made of its own pixel's and channel's words and of this layer's
\* and channel's parameters (conv.h, cfu.v).
THEOREM AlwaysOutputsRight == Spec => []OutputsRight
<1>1. GInv => OutputsRight
  BY DEF GInv
<1> QED
  BY <1>1, AlwaysGInv, PTL

-----------------------------------------------------------------------------
(* Commands.                                                               *)

\* What an edge of the clock makes of the queues and registers.
LEMMA EdgeEffect ==
  ASSUME GInv, GInv', NEW r, NEW f, NEW g, Edge(r, f, g)
  PROVE  /\ In' = After(In, f.in_clear, f.in_write, g.in_word, f.in_read)
         /\ \A b \in Banks :
              Bank(b)' = After(Bank(b), f.filter_clear, b \in f.filter_write, g.filter_word,
                               b \in f.filter_read)
         /\ rsp' = r /\ regs' = g
         /\ g.in_word \in Words /\ g.filter_word \in Words
<1>1. CircuitOK /\ CircuitOK'
  BY DEF GInv
<1>2. /\ rsp' = r /\ flags' = f /\ regs' = g /\ inputs' = next_inputs /\ banks' = next_banks
  BY DEF Edge, Datapath
<1>3. f \in Strobes /\ g \in RegisterValues /\ ResponseOK(r)
  BY <1>1, <1>2 DEF CircuitOK, ResponseOK
<1>4. Len(In) = next_inputs.cnt /\ \A b \in Banks : Len(Bank(b)) = next_banks[b].cnt
  BY <1>1, BuffersValid
<1>5. StrobesFit(f)
  <2>1. NothingDropped'
    BY <1>1 DEF CircuitOK
  <2> QED
    BY <1>2, <1>4, <2>1 DEF NothingDropped, StrobesFit, CanAct
<1>6. /\ In' = After(In, f.in_clear, f.in_write, g.in_word, f.in_read)
      /\ \A b \in Banks :
           Bank(b)' = After(Bank(b), f.filter_clear, b \in f.filter_write, g.filter_word,
                            b \in f.filter_read)
  BY <1>1, <1>3, <1>5, EdgeStep
<1>7. g.in_word \in Words /\ g.filter_word \in Words
  BY <1>3 DEF RegisterValues
<1> QED
  BY <1>2, <1>6, <1>7

\* The strobes of this edge reach no buffer: the queues keep their words.
LEMMA QueuesRest ==
  ASSUME GInv, GInv', NEW r, NEW f, NEW g, Edge(r, f, g), Quiet(f)
  PROVE  /\ Contents(next_inputs)' = Contents(next_inputs)
         /\ [b \in Banks |-> Contents(next_banks[b])]' = [b \in Banks |-> Contents(next_banks[b])]
         /\ rsp' = r /\ regs' = g
<1>1. rsp' = r /\ regs' = g
  BY EdgeEffect
<1>2. In' = In
  BY EdgeEffect DEF Quiet, After
<1>3. \A b \in Banks : Bank(b)' = Bank(b)
  BY EdgeEffect DEF Quiet, After
<1> QED
  BY <1>1, <1>2, <1>3 DEF In, Bank

\* Get's strobe is none that a buffer sees.
LEMMA NoFlagsQuiet ==
  Quiet(NoFlags) /\ Quiet([NoFlags EXCEPT !.qnt_start = TRUE])
  BY DEF Quiet, NoFlags

\* The circuit starts with empty queues.
LEMMA InitImplements ==
  ASSUME Init
  PROVE  Commands!Init
<1>1. /\ inputs = NewBuffer /\ banks = [b \in Banks |-> NewBuffer] /\ flags = NoFlags
      /\ regs = NewRegs /\ rsp = NewRsp
  BY DEF Init, InitCfu
<1>2. CircuitOK
  BY InitOK DEF GInv
<1>3. Contents(inputs) = Contents(next_inputs)
        /\ \A b \in Banks : Contents(banks[b]) = Contents(next_banks[b])
  BY <1>1, <1>2, QuietQueues DEF In, Bank
<1>4. Contents(NewBuffer) = <<>>
  BY DEF Contents, NewBuffer
<1> QED
  BY <1>1, <1>3, <1>4 DEF Commands!Init, Commands!Banks, Banks, NewRegs, NewRsp, NewPar

\* A response that is held or taken is no command.
LEMMA ResponseStutters ==
  ASSUME GInv, GInv', NEW r, r.out = rsp.out, Edge(r, NoFlags, regs)
  PROVE  UNCHANGED Commands!vars
<1>1. /\ Contents(next_inputs)' = Contents(next_inputs)
      /\ [b \in Banks |-> Contents(next_banks[b])]' = [b \in Banks |-> Contents(next_banks[b])]
      /\ rsp' = r /\ regs' = regs
  BY NoFlagsQuiet, QueuesRest
<1> QED
  BY <1>1 DEF Commands!vars

\* The result of Get arrives; the other cycles do nothing.
LEMMA WaitImplements ==
  ASSUME GInv, GInv', Wait
  PROVE  [Commands!Next]_(Commands!vars)
<1>1. CASE NoCommand \/ HoldResponse \/ AwaitQuantizer
  <2>1. Edge(rsp, NoFlags, regs)
    BY <1>1 DEF NoCommand, HoldResponse, AwaitQuantizer
  <2> QED
    BY <2>1, ResponseStutters
<1>2. CASE FinishGet
  <2> DEFINE r == [valid |-> TRUE, pending |-> FALSE, out |-> qnt_out]
             g == [regs EXCEPT !.rd_idx = (@ + 1) % FILTER_BANKS]
  <2>1. Edge(r, NoFlags, g) /\ rsp.pending /\ quant.status /\ r.out = qnt_out
    BY <1>2 DEF FinishGet
  <2>2. qnt_out = <<regs.acc, regs.par>>
    <3>1. QuantizerOK /\ regs \in RegisterValues
      BY DEF GInv, CircuitOK
    <3>2. quant.scaled = <<regs.acc, regs.par>>
      BY <2>1, <3>1 DEF QuantizerOK
    <3> QED
      BY <3>1, <3>2, QuantizedResult
  <2>3. /\ g.acc = regs.acc /\ g.par = regs.par /\ g.wr_idx = regs.wr_idx
        /\ g.rd_idx = (regs.rd_idx + 1) % FILTER_BANKS
    BY DEF GInv, CircuitOK, RegisterValues
  <2> HIDE DEF r, g
  <2>4. /\ Contents(next_inputs)' = Contents(next_inputs)
        /\ [b \in Banks |-> Contents(next_banks[b])]' = [b \in Banks |-> Contents(next_banks[b])]
        /\ rsp' = r /\ regs' = g
    BY <2>1, NoFlagsQuiet, QueuesRest
  <2>5. Commands!Get
    BY <2>1, <2>2, <2>3, <2>4 DEF Commands!Get
  <2> QED
    BY <2>5 DEF Commands!Next
<1> QED
  BY <1>1, <1>2 DEF Wait

\* A response is taken.
LEMMA TakeImplements ==
  ASSUME GInv, GInv', TakeResponse
  PROVE  [Commands!Next]_(Commands!vars)
<1> DEFINE r == [rsp EXCEPT !.valid = FALSE]
<1>1. ResponseOK(rsp) /\ Edge(r, NoFlags, regs)
  BY DEF GInv, CircuitOK, ResponseOK, TakeResponse
<1>2. r.out = rsp.out
  BY <1>1, ResponseFields
<1> QED
  BY <1>1, <1>2, ResponseStutters

\* A reset empties the queues.
LEMMA RestartImplements ==
  ASSUME GInv, GInv', Restart
  PROVE  Commands!Next
<1>1. /\ inputs' = NewBuffer /\ banks' = [b \in Banks |-> NewBuffer] /\ flags' = NoFlags
      /\ regs' = NewRegs /\ rsp' = NewRsp
  BY DEF Restart, Reset
<1>2. CircuitOK'
  BY DEF GInv
<1>3. ~flags'.in_clear /\ ~flags'.in_write /\ ~flags'.in_read /\ ~flags'.filter_clear
        /\ flags'.filter_write = {} /\ flags'.filter_read = {}
  BY <1>1, NoFlagsFields
<1>4. Contents(NewBuffer) = <<>>
  BY DEF Contents, NewBuffer
<1>5. ASSUME NEW d
      PROVE  Contents(BufferEdge(NewBuffer, FALSE, FALSE, d, FALSE)) = <<>>
  BY DEF Contents, NewBuffer, BufferEdge, FifoEdge, do_write, do_read
<1>6. Contents(next_inputs)' = <<>>
  <2>1. next_inputs' = BufferEdge(NewBuffer, FALSE, FALSE, regs'.in_word, FALSE)
    BY <1>1, NoFlagsFields DEF next_inputs, NoFlags
  <2>2. Contents(next_inputs') = <<>>
    BY <1>5, <2>1
  <2> QED
    BY <2>2 DEF Contents
<1>7. [b \in Banks |-> Contents(next_banks[b])]' = [b \in Banks |-> <<>>]
  <2>1. ASSUME NEW b \in Banks
        PROVE  Contents(next_banks[b])' = <<>>
    <3>1. next_banks'[b] = BufferEdge(banks'[b], flags'.filter_clear, b \in flags'.filter_write,
                                      regs'.filter_word, b \in flags'.filter_read)
      BY DEF next_banks
    <3>2. /\ flags'.filter_clear = FALSE /\ (b \in flags'.filter_write) = FALSE
          /\ (b \in flags'.filter_read) = FALSE /\ banks'[b] = NewBuffer
      BY <1>1 DEF NoFlags
    <3>3. ASSUME NEW c, c = FALSE, NEW w, w = FALSE, NEW t, t = FALSE, NEW d
          PROVE  Contents(BufferEdge(NewBuffer, c, w, d, t)) = <<>>
      BY <1>5, <3>3
    <3>4. Contents(next_banks'[b]) = <<>>
      BY <3>1, <3>2, <3>3
    <3> QED
      BY <3>4 DEF Contents
  <2> QED
    BY <2>1
<1>8. Commands!Reset
  BY <1>1, <1>6, <1>7 DEF Commands!Reset, Commands!Init, Commands!Banks, Banks, NewRegs, NewRsp,
                          NewPar
<1> QED
  BY <1>8 DEF Commands!Next

\* What a command makes of the queues and registers.
LEMMA AcceptEffect ==
  ASSUME GInv, GInv', NEW f, NEW g, Accept(f, g)
  PROVE  /\ In' = After(In, f.in_clear, f.in_write, g.in_word, f.in_read)
         /\ \A b \in Banks :
              Bank(b)' = After(Bank(b), f.filter_clear, b \in f.filter_write, g.filter_word,
                               b \in f.filter_read)
         /\ rsp'.out = <<>> /\ regs' = g /\ cmd_ready
         /\ g.in_word \in Words /\ g.filter_word \in Words
<1> DEFINE r == [rsp EXCEPT !.valid = TRUE, !.out = <<>>]
<1>1. Edge(r, f, g) /\ ResponseOK(rsp) /\ cmd_ready
  BY DEF GInv, CircuitOK, ResponseOK, Accept
<1>2. r.out = <<>>
  BY <1>1, ResponseFields
<1> HIDE DEF r
<1>3. /\ In' = After(In, f.in_clear, f.in_write, g.in_word, f.in_read)
      /\ \A b \in Banks :
           Bank(b)' = After(Bank(b), f.filter_clear, b \in f.filter_write, g.filter_word,
                            b \in f.filter_read)
      /\ rsp' = r /\ regs' = g
      /\ g.in_word \in Words /\ g.filter_word \in Words
  BY <1>1, EdgeEffect
<1> QED
  BY <1>1, <1>2, <1>3

\* ... if it raises no strobe.
LEMMA AcceptQuiet ==
  ASSUME GInv, GInv', NEW g, Accept(NoFlags, g)
  PROVE  /\ Contents(next_inputs)' = Contents(next_inputs)
         /\ [b \in Banks |-> Contents(next_banks[b])]' = [b \in Banks |-> Contents(next_banks[b])]
         /\ rsp'.out = <<>> /\ regs' = g
<1>1. Accept(NoFlags, g) /\ rsp'.out = <<>>
  BY AcceptEffect
<1> QED
  BY <1>1, NoFlagsQuiet, QueuesRest DEF Accept

\* The commands that change registers only.
LEMMA RegistersImplement ==
  ASSUME GInv, GInv',
         \/ MacClear \/ NextFilterSet \/ RewindFilterSet
         \/ \E names \in SUBSET ParNames, v \in Params : SetParameters(names, v)
  PROVE  Commands!Next
<1>1. regs \in RegisterValues
  BY DEF GInv, CircuitOK
<1>2. CASE MacClear
  <2> DEFINE g == [regs EXCEPT !.acc = <<>>]
  <2>1. Accept(NoFlags, g)
    BY <1>2 DEF MacClear
  <2>2. /\ g.acc = <<>> /\ g.par = regs.par /\ g.wr_idx = regs.wr_idx /\ g.rd_idx = regs.rd_idx
    BY <1>1 DEF RegisterValues
  <2> HIDE DEF g
  <2>3. /\ Contents(next_inputs)' = Contents(next_inputs)
        /\ [b \in Banks |-> Contents(next_banks[b])]' = [b \in Banks |-> Contents(next_banks[b])]
        /\ rsp'.out = <<>> /\ regs' = g
    BY <2>1, AcceptQuiet
  <2> QED
    BY <2>2, <2>3 DEF Commands!ClearAcc, Commands!Next
<1>3. CASE NextFilterSet
  <2> DEFINE g == [regs EXCEPT !.wr_idx = (@ + 1) % FILTER_BANKS]
  <2>1. Accept(NoFlags, g)
    BY <1>3 DEF NextFilterSet
  <2>2. /\ g.acc = regs.acc /\ g.par = regs.par /\ g.rd_idx = regs.rd_idx
        /\ g.wr_idx = (regs.wr_idx + 1) % FILTER_BANKS
    BY <1>1 DEF RegisterValues
  <2> HIDE DEF g
  <2>3. /\ Contents(next_inputs)' = Contents(next_inputs)
        /\ [b \in Banks |-> Contents(next_banks[b])]' = [b \in Banks |-> Contents(next_banks[b])]
        /\ rsp'.out = <<>> /\ regs' = g
    BY <2>1, AcceptQuiet
  <2> QED
    BY <2>2, <2>3 DEF Commands!NextFilterSet, Commands!Next
<1>4. CASE RewindFilterSet
  <2> DEFINE g == [regs EXCEPT !.rd_idx = 0]
  <2>1. Accept(NoFlags, g)
    BY <1>4 DEF RewindFilterSet
  <2>2. g.acc = regs.acc /\ g.par = regs.par /\ g.rd_idx = 0 /\ g.wr_idx = regs.wr_idx
    BY <1>1 DEF RegisterValues
  <2> HIDE DEF g
  <2>3. /\ Contents(next_inputs)' = Contents(next_inputs)
        /\ [b \in Banks |-> Contents(next_banks[b])]' = [b \in Banks |-> Contents(next_banks[b])]
        /\ rsp'.out = <<>> /\ regs' = g
    BY <2>1, AcceptQuiet
  <2> QED
    BY <2>2, <2>3 DEF Commands!RewindFilterSet, Commands!Next
<1>5. ASSUME NEW names \in SUBSET ParNames, NEW v \in Params, SetParameters(names, v)
      PROVE  Commands!Next
  <2> DEFINE p == [n \in DOMAIN regs.par |-> IF n \in names THEN v ELSE regs.par[n]]
             g == [regs EXCEPT !.par = p]
  <2>1. Accept(NoFlags, g)
    BY <1>5 DEF SetParameters
  <2>2. g.acc = regs.acc /\ g.par = p /\ g.rd_idx = regs.rd_idx /\ g.wr_idx = regs.wr_idx
    <3> HIDE DEF p
    <3> QED
      BY <1>1 DEF RegisterValues
  <2> HIDE DEF g
  <2>3. /\ Contents(next_inputs)' = Contents(next_inputs)
        /\ [b \in Banks |-> Contents(next_banks[b])]' = [b \in Banks |-> Contents(next_banks[b])]
        /\ rsp'.out = <<>> /\ regs' = g
    BY <2>1, AcceptQuiet
  <2>4. DOMAIN regs.par = ParNames
    BY <1>1 DEF RegisterValues, NewPar, ParNames
  <2>5. Commands!SetParameter
    BY <2>2, <2>3, <2>4 DEF Commands!SetParameter
  <2> QED
    BY <2>3, <2>5 DEF Commands!Next
<1> QED
  BY <1>2, <1>3, <1>4, <1>5

\* To start a quantization only takes the last answer back.
LEMMA GetImplements ==
  ASSUME GInv, GInv', Get
  PROVE  Commands!Next
<1> DEFINE r == [rsp EXCEPT !.pending = TRUE, !.out = <<>>]
           f == [NoFlags EXCEPT !.qnt_start = TRUE]
<1>1. Edge(r, f, regs) /\ ResponseOK(rsp)
  BY DEF GInv, CircuitOK, ResponseOK, Get
<1>2. r.out = <<>> /\ Quiet(f)
  BY <1>1, ResponseFields, NoFlagsQuiet
<1> HIDE DEF r, f
<1>3. /\ Contents(next_inputs)' = Contents(next_inputs)
      /\ [b \in Banks |-> Contents(next_banks[b])]' = [b \in Banks |-> Contents(next_banks[b])]
      /\ rsp' = r /\ regs' = regs
  BY <1>1, <1>2, QueuesRest
<1>4. Commands!SetParameter
  <2>1. regs.par \in [DOMAIN NewPar -> Params] /\ Zero \in Params
    BY DataAssumption DEF GInv, CircuitOK, RegisterValues
  <2>2. regs.par = [n \in DOMAIN regs.par |-> IF n \in {} THEN Zero ELSE regs.par[n]]
    BY <2>1
  <2>3. {} \in SUBSET DOMAIN regs.par
    OBVIOUS
  <2>4. \E names \in SUBSET DOMAIN regs.par, v \in Params :
          regs'.par = [n \in DOMAIN regs.par |-> IF n \in names THEN v ELSE regs.par[n]]
    BY <1>3, <2>1, <2>2, <2>3
  <2> QED
    BY <1>3, <2>4 DEF Commands!SetParameter
<1> QED
  BY <1>2, <1>3, <1>4 DEF Commands!Next

\* The commands that change one of the queues.
LEMMA InputImplements ==
  ASSUME GInv, GInv', ClearInputVals \/ \E w \in Words : SetInputVals(w)
  PROVE  Commands!Next
<1>1. regs \in RegisterValues
  BY DEF GInv, CircuitOK
<1>2. ASSUME NEW f, ~f.filter_clear, f.filter_write = {}, f.filter_read = {}, NEW g, Accept(f, g)
      PROVE  [b \in Banks |-> Contents(next_banks[b])]' = [b \in Banks |-> Contents(next_banks[b])]
  <2>1. \A b \in Banks : Bank(b)' = Bank(b)
    BY <1>2, AcceptEffect DEF After
  <2> QED
    BY <2>1 DEF Bank
<1>3. CASE ClearInputVals
  <2> DEFINE f == [NoFlags EXCEPT !.in_clear = TRUE]
  <2>1. /\ Accept(f, regs) /\ f.in_clear /\ ~f.filter_clear
        /\ f.filter_write = {} /\ f.filter_read = {}
    BY <1>3 DEF ClearInputVals, NoFlags
  <2> HIDE DEF f
  <2>2. In' = <<>> /\ rsp'.out = <<>> /\ regs' = regs
    BY <2>1, AcceptEffect DEF After
  <2>3. [b \in Banks |-> Contents(next_banks[b])]' = [b \in Banks |-> Contents(next_banks[b])]
    BY <1>2, <2>1
  <2> QED
    BY <2>2, <2>3 DEF Commands!ClearInputVals, Commands!Next, In
<1>4. ASSUME NEW w \in Words, SetInputVals(w)
      PROVE  Commands!Next
  <2> DEFINE f == [NoFlags EXCEPT !.in_write = TRUE]
             g == [regs EXCEPT !.in_word = w]
  <2>1. /\ Accept(f, g) /\ ~f.in_clear /\ f.in_write /\ ~f.in_read
        /\ ~f.filter_clear /\ f.filter_write = {} /\ f.filter_read = {}
    BY <1>4 DEF SetInputVals, NoFlags
  <2>2. /\ g.acc = regs.acc /\ g.par = regs.par /\ g.wr_idx = regs.wr_idx
        /\ g.rd_idx = regs.rd_idx /\ g.in_word = w
    BY <1>1 DEF RegisterValues
  <2> HIDE DEF f, g
  <2>3. In' = Append(In, w) /\ rsp'.out = <<>> /\ regs' = g
    BY <2>1, <2>2, AcceptEffect DEF After
  <2>4. [b \in Banks |-> Contents(next_banks[b])]' = [b \in Banks |-> Contents(next_banks[b])]
    BY <1>2, <2>1
  <2>5. Commands!SetInputVals
    BY <2>2, <2>3, <2>4 DEF Commands!SetInputVals, In
  <2> QED
    BY <2>3, <2>5 DEF Commands!Next
<1> QED
  BY <1>3, <1>4

\* ... a filter queue.
LEMMA FilterImplements ==
  ASSUME GInv, GInv', ClearFilterVals \/ \E w \in Words : SetFilterVals(w)
  PROVE  Commands!Next
<1>1. regs \in RegisterValues
  BY DEF GInv, CircuitOK
<1>2. CASE ClearFilterVals
  <2> DEFINE f == [NoFlags EXCEPT !.filter_clear = TRUE]
             g == [regs EXCEPT !.wr_idx = 0, !.rd_idx = 0]
  <2>1. Accept(f, g) /\ f.filter_clear /\ ~f.in_clear /\ ~f.in_write /\ ~f.in_read
    BY <1>2 DEF ClearFilterVals, NoFlags
  <2>2. g.acc = regs.acc /\ g.par = regs.par /\ g.wr_idx = 0 /\ g.rd_idx = 0
    BY <1>1 DEF RegisterValues
  <2> HIDE DEF f, g
  <2>3. In' = In /\ rsp'.out = <<>> /\ regs' = g /\ \A b \in Banks : Bank(b)' = <<>>
    BY <2>1, AcceptEffect DEF After
  <2>4. [b \in Banks |-> Contents(next_banks[b])]' = [b \in Banks |-> <<>>]
    BY <2>3 DEF Bank
  <2>5. Commands!ClearFilterVals
    BY <2>2, <2>3, <2>4 DEF Commands!ClearFilterVals, Commands!Banks, Banks, In
  <2> QED
    BY <2>3, <2>5 DEF Commands!Next
<1>3. ASSUME NEW w \in Words, SetFilterVals(w)
      PROVE  Commands!Next
  <2> DEFINE f == [NoFlags EXCEPT !.filter_write = {regs.wr_idx}]
             g == [regs EXCEPT !.filter_word = w]
  <2>1. /\ Accept(f, g) /\ ~f.in_clear /\ ~f.in_write /\ ~f.in_read
        /\ ~f.filter_clear /\ f.filter_write = {regs.wr_idx} /\ f.filter_read = {}
    BY <1>3 DEF SetFilterVals, NoFlags
  <2>2. /\ g.acc = regs.acc /\ g.par = regs.par /\ g.wr_idx = regs.wr_idx
        /\ g.rd_idx = regs.rd_idx /\ g.filter_word = w
    BY <1>1 DEF RegisterValues
  <2> HIDE DEF f, g
  <2>3. In' = In /\ rsp'.out = <<>> /\ regs' = g
    BY <2>1, <2>2, AcceptEffect DEF After
  <2>4. \A b \in Banks : Bank(b)' = IF b = regs.wr_idx THEN Append(Bank(b), w) ELSE Bank(b)
    BY <2>1, <2>2, AcceptEffect DEF After
  <2>5. [b \in Banks |-> Contents(next_banks[b])]'
          = [[b \in Banks |-> Contents(next_banks[b])] EXCEPT ![regs.wr_idx] = Append(@, w)]
    BY <2>4 DEF Bank
  <2>6. Commands!SetFilterVals
    BY <2>2, <2>3, <2>5 DEF Commands!SetFilterVals, In
  <2> QED
    BY <2>3, <2>6 DEF Commands!Next
<1> QED
  BY <1>2, <1>3

\* MacOnBuffer takes the oldest word of two queues and puts it back: read_data shows it.
LEMMA MacImplements ==
  ASSUME GInv, GInv', drv.pc = "mac", since >= MIN_GAP, MacOnBuffer
  PROVE  Commands!Next
<1> DEFINE i == inputs.read_data
           w == banks[regs.rd_idx].read_data
           p == <<i, offset_applied, w>>
           f == [NoFlags EXCEPT !.in_read = TRUE, !.in_write = TRUE,
                                !.filter_read = {regs.rd_idx}, !.filter_write = {regs.rd_idx}]
           g == [regs EXCEPT !.acc = Append(@, p), !.in_word = i, !.filter_word = w]
<1>1. Accept(f, g) /\ design = "banked"
  BY DEF MacOnBuffer
<1>2. /\ ~f.in_clear /\ f.in_write /\ f.in_read /\ ~f.filter_clear
      /\ f.filter_write = {regs.rd_idx} /\ f.filter_read = {regs.rd_idx}
  BY DEF NoFlags
<1>3. /\ g.acc = Append(regs.acc, p) /\ g.par = regs.par /\ g.wr_idx = regs.wr_idx
      /\ g.rd_idx = regs.rd_idx /\ g.in_word = i /\ g.filter_word = w
  <2> HIDE DEF p, i, w
  <2> QED
    BY DEF GInv, CircuitOK, RegisterValues
<1> HIDE DEF f, g
<1>4. cmd_ready
  BY <1>1 DEF Accept
<1>5. /\ In # <<>> /\ Head(In) = i /\ offset_applied = regs.par["mac_offset"]
      /\ regs.rd_idx = bank /\ bank \in Banks /\ Bank(bank) # <<>> /\ Head(Bank(bank)) = w
  BY <1>1, <1>4, MacFinds
<1>6. In' = Append(Tail(In), Head(In)) /\ rsp'.out = <<>> /\ regs' = g
  BY <1>1, <1>2, <1>3, <1>5, AcceptEffect DEF After
<1>7. \A b \in Banks : Bank(b)' = IF b = regs.rd_idx THEN Append(Tail(Bank(b)), Head(Bank(b)))
                                  ELSE Bank(b)
  BY <1>1, <1>2, <1>3, <1>5, AcceptEffect DEF After
<1>8. [b \in Banks |-> Contents(next_banks[b])]'
        = [[b \in Banks |-> Contents(next_banks[b])]
             EXCEPT ![regs.rd_idx] = Append(Tail(@), Head(@))]
  BY <1>7 DEF Bank
<1>9. /\ [b \in Banks |-> Contents(next_banks[b])][regs.rd_idx] = Bank(bank)
      /\ p = <<Head(In), regs.par["mac_offset"], Head(Bank(bank))>>
  BY <1>5 DEF Bank
<1> HIDE DEF p, i, w
<1>10. Commands!MacOnBuffer
  BY <1>3, <1>5, <1>6, <1>8, <1>9 DEF Commands!MacOnBuffer, Commands!Rotated, In
<1> QED
  BY <1>6, <1>10 DEF Commands!Next

\* ... or of one.
LEMMA MacWithImplements ==
  ASSUME GInv, GInv', drv.pc = "mac", since >= MIN_GAP, NEW w \in Words, MacOnBufferWith(w)
  PROVE  Commands!Next
<1> DEFINE i == inputs.read_data
           p == <<i, offset_applied, w>>
           f == [NoFlags EXCEPT !.in_read = TRUE, !.in_write = TRUE]
           g == [regs EXCEPT !.acc = Append(@, p), !.in_word = i]
<1>1. Accept(f, g)
  BY DEF MacOnBufferWith
<1>2. /\ ~f.in_clear /\ f.in_write /\ f.in_read /\ ~f.filter_clear
      /\ f.filter_write = {} /\ f.filter_read = {}
  BY DEF NoFlags
<1>3. /\ g.acc = Append(regs.acc, p) /\ g.par = regs.par /\ g.wr_idx = regs.wr_idx
      /\ g.rd_idx = regs.rd_idx /\ g.in_word = i
  <2> HIDE DEF p, i
  <2> QED
    BY DEF GInv, CircuitOK, RegisterValues
<1> HIDE DEF f, g
<1>4. cmd_ready
  BY <1>1 DEF Accept
<1>5. In # <<>> /\ Head(In) = i /\ offset_applied = regs.par["mac_offset"]
  BY <1>1, <1>4, MacFinds
<1>6. In' = Append(Tail(In), Head(In)) /\ rsp'.out = <<>> /\ regs' = g
  BY <1>1, <1>2, <1>3, <1>5, AcceptEffect DEF After
<1>7. [b \in Banks |-> Contents(next_banks[b])]' = [b \in Banks |-> Contents(next_banks[b])]
  <2>1. \A b \in Banks : Bank(b)' = Bank(b)
    BY <1>1, <1>2, AcceptEffect DEF After
  <2> QED
    BY <2>1 DEF Bank
<1>8. p = <<Head(In), regs.par["mac_offset"], w>>
  BY <1>5
<1> HIDE DEF p, i
<1>9. Commands!MacOnBufferWith
  BY <1>3, <1>5, <1>6, <1>7, <1>8 DEF Commands!MacOnBufferWith, Commands!Rotated, In
<1> QED
  BY <1>6, <1>9 DEF Commands!Next

\* Every command of the driver is the command it means.
LEMMA CommandImplements ==
  ASSUME GInv, GInv', Command
  PROVE  Commands!Next
<1>1. DriverOK
  BY DEF GInv
<1>2. /\ drv.layer \in Params /\ drv.ch \in Params
      /\ InputWord(drv.layer, drv.pixel, drv.k) \in Words
      /\ FilterWord(drv.layer, drv.ch, drv.k) \in Words
  <2>1. drv.k \in 1 .. layer.words /\ drv.ch \in 1 .. layer.channels
    BY <1>1, DriverFields, GroupFacts, ShapeFacts, SMT
  <2> QED
    BY <1>1, <2>1, WordTypes, ChannelParams
<1>3. CASE Configure
  <2>1. \E names \in SUBSET ParNames, v \in Params : SetParameters(names, v)
    BY <1>2, <1>3 DEF Configure, Issue, MacSetOffset, SetOffset, SetMinAndMax, ParNames
  <2> QED
    BY <2>1, RegistersImplement
<1>4. CASE LoadFilters
  <2>1. NextFilterSet \/ ClearFilterVals \/ \E w \in Words : SetFilterVals(w)
    BY <1>2, <1>4 DEF LoadFilters, Issue
  <2> QED
    BY <2>1, RegistersImplement, FilterImplements
<1>5. CASE LoadInput
  <2>1. RewindFilterSet \/ ClearInputVals \/ \E w \in Words : SetInputVals(w)
    BY <1>2, <1>5 DEF LoadInput, Issue
  <2> QED
    BY <2>1, RegistersImplement, InputImplements
<1>6. CASE Accumulate
  <2>1. MacClear \/ /\ drv.pc = "mac" /\ since >= MIN_GAP
                    /\ MacOnBuffer \/ MacOnBufferWith(FilterWord(drv.layer, drv.ch, drv.k))
    BY <1>6 DEF Accumulate, Issue, At
  <2> QED
    BY <1>2, <2>1, RegistersImplement, MacImplements, MacWithImplements
<1>7. CASE Quantize
  <2>1. Get \/ \E names \in SUBSET ParNames, v \in Params : SetParameters(names, v)
    BY <1>2, <1>7 DEF Quantize, Issue, SetBias, SetMulAndShift, ParNames
  <2> QED
    BY <2>1, RegistersImplement, GetImplements
<1> QED
  BY <1>3, <1>4, <1>5, <1>6, <1>7 DEF Command

\* Every step is a command or nothing that commands can see.
LEMMA StepImplements ==
  ASSUME GInv, GInv', [Next]_vars
  PROVE  [Commands!Next]_(Commands!vars)
<1>1. CASE Command
  BY <1>1, CommandImplements
<1>2. CASE Store \/ Acknowledge
  BY <1>2, TakeImplements DEF Store, Acknowledge
<1>3. CASE Wait
  BY <1>3, WaitImplements
<1>4. CASE Restart
  BY <1>4, RestartImplements
<1>5. CASE UNCHANGED vars
  <2>1. next_inputs' = next_inputs /\ next_banks' = next_banks /\ regs' = regs /\ rsp' = rsp
    BY <1>5 DEF vars, cfu_vars, next_inputs, next_banks
  <2> QED
    BY <2>1 DEF Commands!vars
<1> QED
  BY <1>1, <1>2, <1>3, <1>4, <1>5 DEF Next

\* The circuit under the driver does what the commands mean, though a strobe acts a
\* cycle after its command and read_data shows it a cycle later (cfu.v).
THEOREM Implements == Spec => ImplementsCommands
<1>1. Init => Commands!Init
  BY InitImplements
<1>2. GInv /\ GInv' /\ [Next]_vars => [Commands!Next]_(Commands!vars)
  BY StepImplements
<1> QED
  BY <1>1, <1>2, AlwaysGInv, PTL DEF Spec, ImplementsCommands, Commands!Spec
=============================================================================
