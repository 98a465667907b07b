---------------------------- MODULE FragmentFacts ----------------------------
(***************************************************************************)
(* How a message is cut into frames and how the pieces add up, for any     *)
(* Inline and Chunk.                                                       *)
(***************************************************************************)
EXTENDS Fragmentation, Integers, SequenceTheorems, TLAPS

LEMMA Ceiling ==
  \A n \in Nat : \A c \in Nat \ {0} :
    LET b == (n + c - 1) \div c
    IN  b \in Nat /\ n <= b * c /\ (n > 0 => b > 0 /\ (b - 1) * c < n)
  OBVIOUS

(* There are as many blocks as it takes. *)
LEMMA CountFacts ==
  ASSUME NEW S, NEW data \in Seq(S)
  PROVE  /\ BlockCount(data) \in Nat
         /\ Len(data) <= BlockCount(data) * Chunk
         /\ Len(data) > 0 => BlockCount(data) > 0 /\ (BlockCount(data) - 1) * Chunk < Len(data)
  BY Ceiling, FragmentationAssumption DEF BlockCount

Piece(data, i) == SubSeq(data, (i - 1) * Chunk + 1, Smaller(i * Chunk, Len(data)))

LEMMA Products ==
  \A b \in Nat : \A i \in 1 .. b : \A c \in Nat \ {0} :
    /\ (i - 1) * c \in Nat /\ i * c \in Nat /\ i * c = (i - 1) * c + c
    /\ (i - 1) * c <= (b - 1) * c
  <1> SUFFICES ASSUME NEW b \in Nat, NEW i \in 1 .. b, NEW c \in Nat \ {0}
               PROVE  /\ (i - 1) * c \in Nat /\ i * c \in Nat /\ i * c = (i - 1) * c + c
                      /\ (i - 1) * c <= (b - 1) * c
    OBVIOUS
  <1>1. (i - 1) * c \in Nat /\ i * c \in Nat /\ i * c = (i - 1) * c + c
    OBVIOUS
  <1>2. (b - 1) * c = (i - 1) * c + (b - i) * c /\ (b - i) * c \in Nat
    OBVIOUS
  <1> QED
    BY <1>1, <1>2

(* A block carries the next bytes, as many as fit. *)
LEMMA PieceFacts ==
  ASSUME NEW S, NEW data \in Seq(S), NEW i \in 1 .. BlockCount(data)
  PROVE  /\ (i - 1) * Chunk < Len(data)
         /\ Piece(data, i) \in Seq(S)
         /\ Len(Piece(data, i)) <= Chunk
         /\ SubSeq(data, 1, Smaller((i - 1) * Chunk, Len(data))) \o Piece(data, i)
              = SubSeq(data, 1, Smaller(i * Chunk, Len(data)))
  <1> DEFINE low == (i - 1) * Chunk
             high == Smaller(i * Chunk, Len(data))
  <1>1. /\ BlockCount(data) \in Nat
        /\ Len(data) > 0 => (BlockCount(data) - 1) * Chunk < Len(data)
        /\ Len(data) <= BlockCount(data) * Chunk
    BY CountFacts
  <1>2. Len(data) \in Nat
    OBVIOUS
  <1>3. Len(data) > 0
    <2>1. ASSUME Len(data) = 0
          PROVE  BlockCount(data) = 0
      <3>1. \A c \in Nat \ {0} : (0 + c - 1) \div c = 0
        OBVIOUS
      <3> QED
        BY <2>1, <3>1, FragmentationAssumption DEF BlockCount
    <2> QED
      BY <1>2, <2>1
  <1>4. low \in Nat /\ i * Chunk = low + Chunk /\ low <= (BlockCount(data) - 1) * Chunk
    BY <1>1, Products, FragmentationAssumption
  <1>5. (BlockCount(data) - 1) * Chunk \in Int
    BY <1>1, FragmentationAssumption
  <1>6. low < Len(data)
    BY <1>1, <1>2, <1>3, <1>4, <1>5
  <1> HIDE DEF low
  <1>7. high \in low .. Len(data) /\ high - low <= Chunk /\ high \in Nat
    BY <1>2, <1>4, <1>6, FragmentationAssumption DEF Smaller
  <1> HIDE DEF high
  <1>8. Piece(data, i) = SubSeq(data, low + 1, high)
    BY DEF Piece, low, high
  <1>9. SubSeq(data, low + 1, high) \in Seq(S) /\ Len(SubSeq(data, low + 1, high)) <= Chunk
    <2>1. \A j \in low + 1 .. high : data[j] \in S
      BY <1>2, <1>4, <1>7, ElementOfSeq
    <2> QED
      BY <2>1, <1>4, <1>7, SubSeqProperties, FragmentationAssumption
  <1>10. SubSeq(data, 1, low) \o SubSeq(data, low + 1, high) = SubSeq(data, 1, high)
    BY <1>2, <1>4, <1>6, <1>7, ConcatAdjacentSubSeq
  <1>11. Smaller(low, Len(data)) = low
    BY <1>2, <1>4, <1>6 DEF Smaller
  <1> QED
    BY <1>6, <1>8, <1>9, <1>10, <1>11 DEF low, high

(* What all blocks together carry. *)
LEMMA AllPieces ==
  ASSUME NEW S, NEW data \in Seq(S)
  PROVE  SubSeq(data, 1, Smaller(BlockCount(data) * Chunk, Len(data))) = data
  <1>1. Smaller(BlockCount(data) * Chunk, Len(data)) = Len(data)
    BY CountFacts, FragmentationAssumption DEF Smaller
  <1> QED
    BY <1>1, SubSeqFull

LEMMA RowFacts ==
  ASSUME NEW S, NEW data \in Seq(S)
  PROVE  /\ ~(Len(data) > Inline) => Fragments(data) = <<Single(data)>>
         /\ Len(data) > Inline =>
              /\ Len(Fragments(data)) = BlockCount(data) + 1
              /\ Fragments(data)[BlockCount(data) + 1] = Final(BlockCount(data))
              /\ \A i \in 1 .. BlockCount(data) :
                   Fragments(data)[i] = Block(Piece(data, i))
  <1>1. CASE ~(Len(data) > Inline)
    BY <1>1 DEF Fragments
  <1>2. CASE Len(data) > Inline
    <2>1. Fragments(data) = Append(Blocks(data), Final(BlockCount(data)))
      BY <1>2 DEF Fragments
    <2>2. BlockCount(data) \in Nat
      BY CountFacts
    <2>3. Blocks(data) = [i \in 1 .. BlockCount(data) |-> Block(Piece(data, i))]
      BY DEF Blocks, Piece
    <2> DEFINE F == {Block(Piece(data, i)) : i \in 1 .. BlockCount(data)}
                      \cup {Final(BlockCount(data))}
    <2>4. Blocks(data) \in Seq(F) /\ Len(Blocks(data)) = BlockCount(data)
      BY <2>2, <2>3
    <2>5. /\ Len(Fragments(data)) = BlockCount(data) + 1
          /\ Fragments(data)[BlockCount(data) + 1] = Final(BlockCount(data))
          /\ \A i \in 1 .. BlockCount(data) : Fragments(data)[i] = Blocks(data)[i]
      BY <2>1, <2>2, <2>4, AppendProperties
    <2> QED
      BY <1>2, <2>3, <2>5
  <1> QED
    BY <1>1, <1>2

LEMMA FragmentsSeq ==
  ASSUME NEW S, NEW data \in Seq(S)
  PROVE  /\ Len(Fragments(data)) \in Nat
         /\ Fragments(data) \in Seq({Fragments(data)[i] : i \in 1 .. Len(Fragments(data))})
  <1>1. CASE ~(Len(data) > Inline)
    BY <1>1 DEF Fragments
  <1>2. CASE Len(data) > Inline
    <2>1. BlockCount(data) \in Nat
      BY CountFacts
    <2> DEFINE F == {Block(Piece(data, i)) : i \in 1 .. BlockCount(data)}
                      \cup {Final(BlockCount(data))}
    <2>2. Blocks(data) \in Seq(F)
      BY <2>1 DEF Blocks, Piece
    <2>3. Fragments(data) \in Seq(F)
      BY <1>2, <2>2, AppendProperties DEF Fragments
    <2> HIDE DEF F
    <2> QED
      BY <2>3
  <1> QED
    BY <1>1, <1>2

LEMMA OneMore ==
  ASSUME NEW S, NEW s \in Seq(S), NEW k \in 0 .. Len(s) - 1
  PROVE  Append(SubSeq(s, 1, k), s[k + 1]) = SubSeq(s, 1, k + 1)
  <1>1. k + 1 \in 1 .. Len(s) /\ 1 \in 1 .. Len(s) /\ Len(s) \in Nat /\ k + 1 - 1 = k
    OBVIOUS
  <1>2. SubSeq(s, 1, k + 1) = SubSeq(s, 1, k) \o <<s[k + 1]>>
    BY <1>1, SubSeqRecursiveSecond
  <1>3. \A i \in 1 .. k : s[i] \in S
    BY <1>1, ElementOfSeq
  <1>4. SubSeq(s, 1, k) \in Seq(S) /\ s[k + 1] \in S
    BY <1>1, <1>3, SubSeqProperties, ElementOfSeq
  <1> QED
    BY <1>2, <1>4, AppendIsConcat

LEMMA Factors ==
  \A a, b, c \in Nat : a < b => a * c <= (b - 1) * c
  <1> SUFFICES ASSUME NEW a \in Nat, NEW b \in Nat, NEW c \in Nat, a < b
               PROVE  a * c <= (b - 1) * c
    OBVIOUS
  <1>1. (b - 1) * c = a * c + (b - 1 - a) * c /\ (b - 1 - a) * c \in Nat /\ a * c \in Nat
    OBVIOUS
  <1> QED
    BY <1>1
=============================================================================
