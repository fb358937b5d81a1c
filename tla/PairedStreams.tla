--------------------------- MODULE PairedStreams ---------------------------
(***************************************************************************)
(* What streams joined by the components of HpsStream promise, with no     *)
(* register, handshake or width in it: the n-th word, made of four bytes,  *)
(* goes out with the n-th tag, tags get in as they are released, and       *)
(* nothing is lost, repeated or overtaken.                                 *)
(***************************************************************************)
EXTENDS Naturals, Sequences

CONSTANTS
  Bytes,    \* the bytes
  Tags,     \* the tags
  Releases, \* the numbers of tags that may be released at once
  None      \* nothing was put in, or taken out

VARIABLES
  part,     \* the bytes of the next word
  words,    \* the words that are not yet paired
  tags,     \* the tags that are not yet paired
  pairs,    \* the pairs of a word and a tag that were not taken yet
  credit,   \* tags that may still be put in
  taken     \* the pair that was taken last, or None

vars == <<part, words, tags, pairs, credit, taken>>

Init ==
  /\ part = <<>> /\ words = <<>> /\ tags = <<>> /\ pairs = <<>>
  /\ credit = 0
  /\ taken = None

With(queue, item) == IF item = None THEN queue ELSE Append(queue, item)

-----------------------------------------------------------------------------
(* What may happen in a cycle, all of it at once.                          *)

\* A word is complete with its fourth byte.  A reset drops words, the oldest first,
\* and never a part of one.
PutByte(byte, join, reset) ==
  LET completes == byte # None /\ Len(part) = 3
      kept      == IF join THEN Tail(words) ELSE words
  IN  /\ part' = IF completes THEN <<>> ELSE With(part, byte)
      /\ \E dropped \in 0 .. (IF reset THEN Len(kept) ELSE 0) :
           words' = With(SubSeq(kept, dropped + 1, Len(kept)),
                         IF completes THEN Append(part, byte) ELSE None)

PutTag(tag) ==
  \/ tag # None /\ credit > 0 /\ credit' = credit - 1
  \/ tag = None /\ credit' = credit
  \/ tag = None /\ credit = 0 /\ credit' \in Releases

TakePair(take) ==
  /\ take => pairs # <<>>
  /\ taken' = IF take THEN Head(pairs) ELSE None

\* The oldest word and the oldest tag become a pair, the tag perhaps one that is
\* only just put in.  A reset drops the tags left.
JoinPair(tag, join, take, reset) ==
  LET waiting == With(tags, tag)
      left    == IF take THEN Tail(pairs) ELSE pairs
  IN  /\ join => words # <<>> /\ waiting # <<>>
      /\ pairs' = IF join THEN Append(left, [word |-> Head(words), tag |-> Head(waiting)]) ELSE left
      /\ tags' = IF reset THEN <<>> ELSE IF join THEN Tail(waiting) ELSE waiting

Next ==
  \E join, take, reset \in BOOLEAN :
    /\ TakePair(take)
    /\ \E tag \in Tags \cup {None} : PutTag(tag) /\ JoinPair(tag, join, take, reset)
    /\ \E byte \in Bytes \cup {None} : PutByte(byte, join, reset)

Spec == Init /\ [][Next]_vars
=============================================================================
